---- MODULE Spec2Model ----
(***************************************************************************)
(* A model of tebl/fancontrol: the PWM output state machine                *)
(* (lib/control/pwm_sensor.py), the request arbitration                    *)
(* (lib/control/pwm_request.py), the micro-scheduler (lib/scheduler.py),   *)
(* the fan's temperature mapping (lib/control/fan.py) and the controller's *)
(* run loop (fancontrol.py, FanControl.control).                           *)
(*                                                                         *)
(* Methods are operators on a call context: a record holding the object    *)
(* (self), the device files it reads and writes (hw), and what the call    *)
(* produced: the writes it attempted (io), the warnings and errors it      *)
(* logged (log), the exception it raised (exc) and its return value (ret). *)
(* The inputs a call takes from the world (whether a read or a write       *)
(* succeeds, what a tachometer reads) are parameters, chosen by the        *)
(* actions.                                                                *)
(***************************************************************************)
EXTENDS Integers, Sequences, FiniteSets, TLC

\* Python's None, where the program holds an optional integer; also the
\* value of a sensor attribute that no successful read has set yet.
None == -1

\* No exception was raised by the call.
NoExc == "none"

\* One second, in the unit of time of the model (1/510 s): the unit makes
\* 0.3 s, 0.5 s and delay * 20 / 255 whole numbers.
Second == 2 * 255

\* time(): the clock is read relative to the present, which is the origin;
\* Elapse moves every recorded timestamp into the past instead.
time == 0

Max(a, b) == IF a >= b THEN a ELSE b

Min(a, b) == IF a <= b THEN a ELSE b

Abs(a) == IF a < 0 THEN -a ELSE a

\* Python's round() of the rational num / den (den > 0): to the nearest
\* integer, a tie going to the even one.
Round(num, den) ==
    LET q == num \div den
        r == num % den
    IN  IF 2 * r < den THEN q
        ELSE IF 2 * r > den THEN q + 1
        ELSE IF q % 2 = 0 THEN q ELSE q + 1

(***************************************************************************)
(* MicroScheduler (lib/scheduler.py)                                       *)
(***************************************************************************)

\* MicroScheduler.__init__: set_limit(limit) and clear().
MicroScheduler(step_delay, limit) ==
    [step_delay |-> step_delay, limit |-> limit, count |-> limit,
     next_set |-> FALSE, last_updated |-> None, trigger_at |-> None]

set_limit(s, limit) == [s EXCEPT !.limit = limit, !.count = limit]

\* A clear that also hands the budget back.
clear_replenishing(s) ==
    [s EXCEPT !.next_set = FALSE, !.last_updated = None, !.trigger_at = None, !.count = s.limit]

clear(s) == [s EXCEPT !.next_set = FALSE, !.last_updated = None, !.trigger_at = None]

\* __check_limit: the budget is spent one call at a time; an exhausted budget
\* raises before anything is changed.
\* A __check_limit that lets every call through.
check_limit_unlimited(s) == [self |-> s, exc |-> NoExc]

check_limit(s) ==
    IF s.limit = None THEN [self |-> s, exc |-> NoExc]
    ELSE IF s.count > 0 THEN [self |-> [s EXCEPT !.count = @ - 1], exc |-> NoExc]
    ELSE [self |-> s, exc |-> "SchedulerLimitExceeded"]

\* A set_next that stamps the new deadline before it checks the budget.
set_next_stamps_first(s, now) ==
    LET stamped == [s EXCEPT !.last_updated = now, !.trigger_at = now + s.step_delay,
                             !.next_set = TRUE]
        c == check_limit(stamped)
    IN  c

set_next(s, now) ==
    LET c == check_limit(s)
    IN  IF c.exc # NoExc THEN c
        ELSE [self |-> [c.self EXCEPT !.last_updated = now,
                                      !.trigger_at = now + s.step_delay,
                                      !.next_set = TRUE],
              exc |-> NoExc]

\* A was_passed that answers without asking whether a deadline was set.
was_passed_unchecked(s, now) ==
    IF now < s.last_updated
    THEN [ret |-> TRUE, exc |-> NoExc, log |-> <<"WARNING">>]
    ELSE IF (now - s.last_updated) > s.step_delay * 2
    THEN [ret |-> TRUE, exc |-> NoExc, log |-> <<"WARNING">>]
    ELSE [ret |-> now > s.trigger_at, exc |-> NoExc, log |-> <<>>]

\* A was_passed for which the deadline has passed when it is reached.
was_passed_inclusive(s, now) ==
    IF ~s.next_set
    THEN [ret |-> FALSE, exc |-> "NotScheduledException", log |-> <<>>]
    ELSE IF now < s.last_updated
    THEN [ret |-> TRUE, exc |-> NoExc, log |-> <<"WARNING">>]
    ELSE IF (now - s.last_updated) > s.step_delay * 2
    THEN [ret |-> TRUE, exc |-> NoExc, log |-> <<"WARNING">>]
    ELSE [ret |-> now >= s.trigger_at, exc |-> NoExc, log |-> <<>>]

\* A was_passed that trusts the clock.
was_passed_trusting(s, now) ==
    IF ~s.next_set
    THEN [ret |-> FALSE, exc |-> "NotScheduledException", log |-> <<>>]
    ELSE [ret |-> now > s.trigger_at, exc |-> NoExc, log |-> <<>>]

\* was_passed: ret is the answer, log the warning it logged, if any.
was_passed(s, now) ==
    IF ~s.next_set
    THEN [ret |-> FALSE, exc |-> "NotScheduledException", log |-> <<>>]
    ELSE IF now < s.last_updated
    THEN [ret |-> TRUE, exc |-> NoExc, log |-> <<"WARNING">>]
    ELSE IF (now - s.last_updated) > s.step_delay * 2
    THEN [ret |-> TRUE, exc |-> NoExc, log |-> <<"WARNING">>]
    ELSE [ret |-> now > s.trigger_at, exc |-> NoExc, log |-> <<>>]

\* suggest_step_delay(cycle_length, max_steps, max_length) with max_steps
\* given as the fraction steps_num / steps_den (PWM_MAX / pwm_steps).
suggest_step_delay(cycle_length, steps_num, steps_den, max_length) ==
    LET step_length == (cycle_length * steps_den) \div steps_num
    IN  IF max_length # None /\ (cycle_length * steps_den) > max_length * steps_num
        THEN max_length
        ELSE step_length

(***************************************************************************)
(* PWMRequest (lib/control/pwm_request.py)                                 *)
(***************************************************************************)

PWMRequest(requester, target_value, start_value) ==
    [requester |-> requester, target_value |-> target_value, start_value |-> start_value]

\* No request: the None that get_max returns for an empty list.
NoRequest == PWMRequest(None, None, None)

\* get_max: the loop over the requests, keeping the first request among those
\* with the largest start value and the first among those with the largest
\* target value.
RECURSIVE get_max_from(_, _, _, _)
get_max_from(requests, i, req_start, req_target) ==
    IF i > Len(requests) THEN [start |-> req_start, target |-> req_target]
    ELSE LET request == requests[i]
             s == IF request.start_value # None
                     /\ (req_start = NoRequest \/ request.start_value > req_start.start_value)
                  THEN request ELSE req_start
             t == IF req_target = NoRequest \/ request.target_value > req_target.target_value
                  THEN request ELSE req_target
         IN  get_max_from(requests, i + 1, s, t)

get_max(requests) == get_max_from(requests, 1, NoRequest, NoRequest)

get_max_target(requests) ==
    LET m == get_max(requests)
    IN  IF m.target # NoRequest THEN m.target.target_value ELSE None

get_max_start(requests) ==
    LET m == get_max(requests)
    IN  IF m.start # NoRequest THEN m.target.start_value ELSE None

(***************************************************************************)
(* The configuration the controller is started with: three fans, the first *)
(* two sharing PWM output 1, all reading one temperature sensor, each with *)
(* its own tachometer.                                                     *)
(***************************************************************************)

Fans == {1, 2, 3}

Outputs == {1, 2}

\* config[f]: the attributes Fan.load_configuration set on fan f.
VARIABLE config

\* The sections of the configuration file the controller is started with.
Sections(f) ==
    CASE f = 1 -> [device |-> 1, sensor_min |-> 20, sensor_max |-> 60,
                   pwm_min |-> 0, pwm_max |-> 100, pwm_start |-> 80, pwm_stop |-> 40]
      [] f = 2 -> [device |-> 1, sensor_min |-> 30, sensor_max |-> 70,
                   pwm_min |-> 50, pwm_max |-> 90, pwm_start |-> 80, pwm_stop |-> 60]
      [] f = 3 -> [device |-> 2, sensor_min |-> 20, sensor_max |-> 60,
                   pwm_min |-> 0, pwm_max |-> 60, pwm_start |-> 50, pwm_stop |-> 10]

\* The attributes of fan f, as load_configuration set them.
FanConfig(f) == config[f]

\* FanControl.fans: the fans in the order of their configuration sections.
fans == <<1, 2, 3>>

\* Sensor.fans of a PWM output: the fans registered on it, in that order.
fans_of(o) == SelectSeq(fans, LAMBDA f : FanConfig(f).device = o)

\* FanControl.sensors: every sensor in the order create_sensor first met it
\* (each fan's device, sensor and pwm_input in turn).
sensors ==
    << [kind |-> "pwm", id |-> 1], [kind |-> "temp", id |-> 1], [kind |-> "fan", id |-> 1],
       [kind |-> "fan", id |-> 2],
       [kind |-> "pwm", id |-> 2], [kind |-> "fan", id |-> 3] >>

\* FanControl.outputs: the PWM outputs in the order they were created.
outputs == <<1, 2>>

\* FanControl.delay (Settings.delay, whole seconds, at least 1), in time units.
delay == 3 * Second

(***************************************************************************)
(* Sensor, TemperatureSensor, FanSensor (lib/control/*.py)                 *)
(***************************************************************************)

\* A read of a device file that fails (SensorException).
ReadFailed == -2

\* Sensor.update over RawSensor.update: a failed read is logged as an error
\* and the cached value kept.  ctx is [value, log].
Sensor_update(value, reading) ==
    IF reading = ReadFailed
    THEN [value |-> value, log |-> <<"ERROR">>]
    ELSE [value |-> reading, log |-> <<>>]

\* What open() and file.read() of a device file may give: its data, a
\* whole number (kind "data"); data that int() does not parse ("garbled");
\* no such file ("missing"); or an error of the operating system other than
\* a missing file, such as a permission or an I/O error ("unreadable").
DeviceFile(kind, value) == [kind |-> kind, value |-> value]

\* RawSensor.read: of what open(), file.read() and int() raise, only
\* FileNotFoundError is caught and raised again as SensorException.
RawSensor_read(file) ==
    IF file.kind = "missing" THEN [ret |-> None, exc |-> "SensorException"]
    ELSE IF file.kind = "unreadable" THEN [ret |-> None, exc |-> "OSError"]
    ELSE IF file.kind = "garbled" THEN [ret |-> None, exc |-> "ValueError"]
    ELSE [ret |-> file.value, exc |-> NoExc]

\* RawSensor.read_int: a ValueError is raised again as SensorException.
RawSensor_read_int(file) ==
    LET r == RawSensor_read(file)
    IN  IF r.exc = "ValueError" THEN [r EXCEPT !.exc = "SensorException"] ELSE r

\* RawSensor.update: self.value = self.read_int(self.device_path).
RawSensor_update(value, file) ==
    LET r == RawSensor_read_int(file)
    IN  IF r.exc # NoExc THEN [value |-> value, exc |-> r.exc, log |-> <<>>]
        ELSE [value |-> r.ret, exc |-> NoExc, log |-> <<"VERBOSE">>]

\* Sensor.update: RawSensor.update in a try that catches SensorException
\* and logs it as an error.
Sensor_update_from(value, file) ==
    LET u == RawSensor_update(value, file)
    IN  IF u.exc = "SensorException" THEN [u EXCEPT !.exc = NoExc, !.log = <<"ERROR">>]
        ELSE u

\* RawSensor.get_value: the cached value, an attribute only update() sets.
RawSensor_get_value(value) ==
    IF value = None THEN [ret |-> None, exc |-> "AttributeError"]
    ELSE [ret |-> value, exc |-> NoExc]

\* RawSensor.get_title(include_summary=True): formats a fresh read_int of
\* the device file.
RawSensor_get_title(file) == RawSensor_read_int(file)

\* TemperatureSensor.read_int divides the reading by 1000.0: a temperature
\* is held as the numerator of a fraction over TEMP_DIV.
TEMP_DIV == 1000

\* FanSensor.peek_running: a fresh read of the tachometer; a failed read is
\* logged as a warning and answers False.
peek_running(reading) ==
    IF reading = ReadFailed
    THEN [ret |-> FALSE, log |-> <<"WARNING">>]
    ELSE [ret |-> reading > 0, log |-> <<>>]

(***************************************************************************)
(* PWMIterator (lib/pwm_iterator.py)                                       *)
(***************************************************************************)

\* PWMIterator.__init__; value is an attribute only __iter__ sets.
PWMIterator(start, end, step) ==
    [start |-> start, end |-> end, step |-> step, started |-> FALSE, value |-> None]

\* __iter__: a positive step starts from start, any other from end.
PWMIterator_iter(self) ==
    [self EXCEPT !.value = IF self.step > 0 THEN self.start ELSE self.end]

\* A __next__ that takes whole steps only.
PWMIterator_next_whole(self) ==
    IF ~self.started
    THEN [self |-> [self EXCEPT !.started = TRUE], ret |-> self.value, exc |-> NoExc]
    ELSE IF self.value = (IF self.step > 0 THEN self.end ELSE self.start)
    THEN [self |-> self, ret |-> None, exc |-> "StopIteration"]
    ELSE [self |-> [self EXCEPT !.value = @ + self.step], ret |-> self.value + self.step,
          exc |-> NoExc]

\* __next__: the first call returns the value __iter__ set; a later one
\* raises StopIteration at the far end, or steps and stops at the far end.
PWMIterator_next(self) ==
    IF ~self.started
    THEN [self |-> [self EXCEPT !.started = TRUE], ret |-> self.value, exc |-> NoExc]
    ELSE IF self.step > 0
    THEN IF self.value = self.end
         THEN [self |-> self, ret |-> None, exc |-> "StopIteration"]
         ELSE LET value == IF self.value + self.step > self.end THEN self.end
                           ELSE self.value + self.step
              IN  [self |-> [self EXCEPT !.value = value], ret |-> value, exc |-> NoExc]
    ELSE IF self.value = self.start
         THEN [self |-> self, ret |-> None, exc |-> "StopIteration"]
         ELSE LET value == IF self.value + self.step < self.start THEN self.start
                           ELSE self.value + self.step
              IN  [self |-> [self EXCEPT !.value = value], ret |-> value, exc |-> NoExc]

(***************************************************************************)
(* Settings (lib/settings.py) over a ConfigParser.  The parser is held as  *)
(* a function from the names of its sections to their items, a sequence of *)
(* [key, value] in the order they were set.  A value is a sequence of      *)
(* pieces of text, a percent sign being a piece of its own: the parser     *)
(* stores values as they are written in the file and interpolates them     *)
(* when they are read ("%%" reads as "%").                                 *)
(***************************************************************************)

SETTINGS == "Settings"

SPECIAL_SECTIONS == {SETTINGS}

\* The name the ConfigParser keeps for its defaults: no section may have it.
DEFAULT_SECTION == "DEFAULT"

Item(key, value) == [key |-> key, value |-> value]

\* What the ConfigParser does to a value it hands out (items(), get()):
\* "%%" becomes "%", any other "%" is an InterpolationSyntaxError.
RECURSIVE before_get(_, _)
before_get(value, i) ==
    IF i > Len(value) THEN [ret |-> <<>>, exc |-> NoExc]
    ELSE IF value[i] # "%"
    THEN LET rest == before_get(value, i + 1) IN [rest EXCEPT !.ret = <<value[i]>> \o @]
    ELSE IF i < Len(value) /\ value[i + 1] = "%"
    THEN LET rest == before_get(value, i + 2) IN [rest EXCEPT !.ret = <<"%">> \o @]
    ELSE [ret |-> <<>>, exc |-> "InterpolationSyntaxError"]

\* What the ConfigParser does to a value it is given (set()): once every
\* "%%" is taken out, a "%" that is left is a ValueError.
RECURSIVE before_set(_, _)
before_set(value, i) ==
    IF i > Len(value) THEN NoExc
    ELSE IF value[i] # "%" THEN before_set(value, i + 1)
    ELSE IF i < Len(value) /\ value[i + 1] = "%" THEN before_set(value, i + 2)
    ELSE "ValueError"

\* Settings.have_section: section in self.config.sections().
have_section(cfg, section) == section \in DOMAIN cfg

\* Settings.is_special.
is_special(section) == section \in SPECIAL_SECTIONS

\* self.config.add_section(name): the name of the defaults is refused.
add_section(cfg, name) ==
    IF name = DEFAULT_SECTION THEN [config |-> cfg, exc |-> "ValueError"]
    ELSE [config |-> [s \in DOMAIN cfg \cup {name} |-> IF s = name THEN <<>> ELSE cfg[s]],
          exc |-> NoExc]

\* self.config.remove_section(section).
remove_section(cfg, section) == [s \in DOMAIN cfg \ {section} |-> cfg[s]]

\* self.config.items(section): the items of the section, interpolated.
RECURSIVE config_items(_, _, _)
config_items(cfg, section, i) ==
    IF i > Len(cfg[section]) THEN [ret |-> <<>>, exc |-> NoExc]
    ELSE LET value == before_get(cfg[section][i].value, 1)
             rest == config_items(cfg, section, i + 1)
         IN  IF value.exc # NoExc THEN [ret |-> <<>>, exc |-> value.exc]
             ELSE IF rest.exc # NoExc THEN rest
             ELSE [rest EXCEPT !.ret = <<Item(cfg[section][i].key, value.ret)>> \o @]

\* self.config.set(section, key, value).
config_set(cfg, section, key, value) ==
    LET items == cfg[section]
        held == { i \in 1..Len(items) : items[i].key = key }
    IN  IF before_set(value, 1) # NoExc THEN [config |-> cfg, exc |-> before_set(value, 1)]
        ELSE [config |-> [cfg EXCEPT ![section] =
                             IF held = {} THEN Append(items, Item(key, value))
                             ELSE [i \in 1..Len(items) |->
                                      IF i \in held THEN Item(key, value) ELSE items[i]]],
              exc |-> NoExc]

\* The loop of rename_section over the items of the old section, from the
\* i-th on: an exception of set() ends it.
RECURSIVE copy_items(_, _, _, _)
copy_items(cfg, new_name, items, i) ==
    IF i > Len(items) THEN [config |-> cfg, exc |-> NoExc]
    ELSE LET s == config_set(cfg, new_name, items[i].key, items[i].value)
         IN  IF s.exc # NoExc THEN s ELSE copy_items(s.config, new_name, items, i + 1)

\* Settings.rename_section.
rename_section(cfg, section, new_name) ==
    LET refused == [config |-> cfg, exc |-> "ControlRuntimeError", ret |-> FALSE]
        added == add_section(cfg, new_name)
        items == config_items(cfg, section, 1)
        copied == copy_items(added.config, new_name, items.ret, 1)
    IN  IF new_name = "" THEN refused
        ELSE IF is_special(section) THEN refused
        ELSE IF is_special(new_name) THEN refused
        ELSE IF ~have_section(cfg, section) THEN refused
        ELSE IF have_section(cfg, new_name) THEN refused
        ELSE IF added.exc # NoExc THEN [config |-> cfg, exc |-> added.exc, ret |-> FALSE]
        ELSE IF items.exc # NoExc
        THEN [config |-> added.config, exc |-> items.exc, ret |-> FALSE]
        ELSE IF copied.exc # NoExc
        THEN [config |-> copied.config, exc |-> copied.exc, ret |-> FALSE]
        ELSE [config |-> remove_section(copied.config, section), exc |-> NoExc, ret |-> TRUE]

\* Settings.DEFAULT_ALLOWED_CHARS: string.ascii_letters + string.digits +
\* '_-#.', as the set of its characters.
allowed_chars ==
    { "a", "b", "c", "d", "e", "f", "g", "h", "i", "j", "k", "l", "m", "n", "o", "p", "q", "r",
      "s", "t", "u", "v", "w", "x", "y", "z", "A", "B", "C", "D", "E", "F", "G", "H", "I", "J",
      "K", "L", "M", "N", "O", "P", "Q", "R", "S", "T", "U", "V", "W", "X", "Y", "Z", "0", "1",
      "2", "3", "4", "5", "6", "7", "8", "9", "_", "-", "#", "." }

\* The characters of the names set() is called with, in turn.
Chars(name) ==
    CASE name = "" -> <<>>
      [] name = "Settings" -> <<"S", "e", "t", "t", "i", "n", "g", "s">>
      [] name = "fan1" -> <<"f", "a", "n", "1">>
      [] name = "fan3" -> <<"f", "a", "n", "3">>
      [] name = "secti@n" -> <<"s", "e", "c", "t", "i", "@", "n">>
      [] name = "key" -> <<"k", "e", "y">>
      [] name = "ke@y" -> <<"k", "e", "@", "y">>
      [] name = "enabled" -> <<"e", "n", "a", "b", "l", "e", "d">>
      [] name = "my key" -> <<"m", "y", " ", "k", "e", "y">>

\* Settings.check_allowed_chars: the exception it raises, if any.
RECURSIVE check_chars_from(_, _)
check_chars_from(chars, i) ==
    IF i > Len(chars) THEN NoExc
    ELSE IF chars[i] \notin allowed_chars THEN "ControlRuntimeError"
    ELSE check_chars_from(chars, i + 1)

check_allowed_chars(key_string) ==
    IF key_string = "" THEN "ControlRuntimeError"
    ELSE check_chars_from(Chars(key_string), 1)

\* Settings.have_key.
have_key(cfg, section, key) ==
    have_section(cfg, section) /\ \E i \in 1..Len(cfg[section]) : cfg[section][i].key = key

\* The keys create_section sets in a new section, with str() of the
\* defaults.
SectionDefaults ==
    <<Item("enabled", <<"yes">>), Item("sensor", <<>>), Item("sensor_min", <<"20">>),
      Item("sensor_max", <<"60">>), Item("device", <<>>), Item("pwm_min", <<"0">>),
      Item("pwm_max", <<"255">>), Item("pwm_start", <<"32">>), Item("pwm_stop", <<"40">>),
      Item("pwm_input", <<>>)>>

\* Settings.create_section: self.config[section] = {} and a set() of each
\* default.
create_section(cfg, section) ==
    IF have_section(cfg, section) THEN cfg
    ELSE copy_items([s \in DOMAIN cfg \cup {section} |-> IF s = section THEN <<>> ELSE cfg[s]],
                    section, SectionDefaults, 1).config

\* A set() that checks both names before it creates the section.
Settings_set_checking_first(cfg, section, key, value) ==
    LET created == create_section(cfg, section)
    IN  IF ~have_section(cfg, section) /\ check_allowed_chars(section) # NoExc
        THEN [config |-> cfg, exc |-> check_allowed_chars(section)]
        ELSE IF ~have_key(created, section, key) /\ check_allowed_chars(key) # NoExc
        THEN [config |-> cfg, exc |-> check_allowed_chars(key)]
        ELSE config_set(created, section, key, value)

\* Settings.set: a section that is not there is checked and created, then a
\* key that is not there is checked, then the value is set.
Settings_set(cfg, section, key, value) ==
    LET created == create_section(cfg, section)
    IN  IF ~have_section(cfg, section) /\ check_allowed_chars(section) # NoExc
        THEN [config |-> cfg, exc |-> check_allowed_chars(section)]
        ELSE IF ~have_key(created, section, key) /\ check_allowed_chars(key) # NoExc
        THEN [config |-> created, exc |-> check_allowed_chars(key)]
        ELSE config_set(created, section, key, value)

(***************************************************************************)
(* Fan (lib/control/fan.py)                                                *)
(***************************************************************************)

\* Fan.__calculate: temp is the cached temperature (over TEMP_DIV), tach the
\* cached tachometer value.  Reading a value no update has set raises
\* AttributeError.
\* A __calculate that maps every temperature above sensor_min along the
\* line, also those above sensor_max.
calculate_unclamped(f, temp, tach) ==
    LET cfg == FanConfig(f)
        pwm_value ==
            IF temp <= cfg.sensor_min * TEMP_DIV THEN cfg.pwm_min
            ELSE Round((temp - cfg.sensor_min * TEMP_DIV) * (cfg.pwm_max - cfg.pwm_min)
                         + cfg.pwm_min * TEMP_DIV * (cfg.sensor_max - cfg.sensor_min),
                       TEMP_DIV * (cfg.sensor_max - cfg.sensor_min))
    IN  IF temp = None THEN [exc |-> "AttributeError", ret |-> NoRequest]
        ELSE IF pwm_value > cfg.pwm_stop /\ tach = None
        THEN [exc |-> "AttributeError", ret |-> NoRequest]
        ELSE IF pwm_value > cfg.pwm_stop /\ tach = 0
        THEN [exc |-> NoExc, ret |-> PWMRequest(f, pwm_value, cfg.pwm_start)]
        ELSE [exc |-> NoExc, ret |-> PWMRequest(f, pwm_value, None)]

\* A __calculate that cuts the fraction off instead of rounding.
calculate_truncating(f, temp, tach) ==
    LET cfg == FanConfig(f)
        pwm_value ==
            IF temp <= cfg.sensor_min * TEMP_DIV THEN cfg.pwm_min
            ELSE IF temp >= cfg.sensor_max * TEMP_DIV THEN cfg.pwm_max
            ELSE ((temp - cfg.sensor_min * TEMP_DIV) * (cfg.pwm_max - cfg.pwm_min)
                    + cfg.pwm_min * TEMP_DIV * (cfg.sensor_max - cfg.sensor_min))
                 \div (TEMP_DIV * (cfg.sensor_max - cfg.sensor_min))
    IN  IF temp = None THEN [exc |-> "AttributeError", ret |-> NoRequest]
        ELSE IF pwm_value > cfg.pwm_stop /\ tach = None
        THEN [exc |-> "AttributeError", ret |-> NoRequest]
        ELSE IF pwm_value > cfg.pwm_stop /\ tach = 0
        THEN [exc |-> NoExc, ret |-> PWMRequest(f, pwm_value, cfg.pwm_start)]
        ELSE [exc |-> NoExc, ret |-> PWMRequest(f, pwm_value, None)]

\* A __calculate that asks for a start whenever the tachometer reads 0,
\* whatever the target.
calculate_starts_at_rest(f, temp, tach) ==
    LET cfg == FanConfig(f)
        pwm_value ==
            IF temp <= cfg.sensor_min * TEMP_DIV THEN cfg.pwm_min
            ELSE IF temp >= cfg.sensor_max * TEMP_DIV THEN cfg.pwm_max
            ELSE Round((temp - cfg.sensor_min * TEMP_DIV) * (cfg.pwm_max - cfg.pwm_min)
                         + cfg.pwm_min * TEMP_DIV * (cfg.sensor_max - cfg.sensor_min),
                       TEMP_DIV * (cfg.sensor_max - cfg.sensor_min))
    IN  IF temp = None THEN [exc |-> "AttributeError", ret |-> NoRequest]
        ELSE IF tach = None THEN [exc |-> "AttributeError", ret |-> NoRequest]
        ELSE IF tach = 0
        THEN [exc |-> NoExc, ret |-> PWMRequest(f, pwm_value, cfg.pwm_start)]
        ELSE [exc |-> NoExc, ret |-> PWMRequest(f, pwm_value, None)]

calculate(f, temp, tach) ==
    LET cfg == FanConfig(f)
        pwm_value ==
            IF temp <= cfg.sensor_min * TEMP_DIV THEN cfg.pwm_min
            ELSE IF temp >= cfg.sensor_max * TEMP_DIV THEN cfg.pwm_max
            ELSE Round((temp - cfg.sensor_min * TEMP_DIV) * (cfg.pwm_max - cfg.pwm_min)
                         + cfg.pwm_min * TEMP_DIV * (cfg.sensor_max - cfg.sensor_min),
                       TEMP_DIV * (cfg.sensor_max - cfg.sensor_min))
    IN  IF temp = None THEN [exc |-> "AttributeError", ret |-> NoRequest]
        ELSE IF pwm_value > cfg.pwm_stop /\ tach = None
        THEN [exc |-> "AttributeError", ret |-> NoRequest]
        ELSE IF pwm_value > cfg.pwm_stop /\ tach = 0
        THEN [exc |-> NoExc, ret |-> PWMRequest(f, pwm_value, cfg.pwm_start)]
        ELSE [exc |-> NoExc, ret |-> PWMRequest(f, pwm_value, None)]

\* The request Fan.shutdown submits: pwm_max as both start and target.
shutdown_request(f) == PWMRequest(f, FanConfig(f).pwm_max, FanConfig(f).pwm_max)

Fan_PWM_MIN == 0
Fan_PWM_MAX == 255

\* Fan.__get_attribute_int: the value is refused when below min_value or
\* above max_value, where one is given.
get_attribute_int(value, min_value, max_value) ==
    IF min_value # None /\ value < min_value THEN "ConfigurationError"
    ELSE IF max_value # None /\ value > max_value THEN "ConfigurationError"
    ELSE NoExc

\* Fan.load_configuration, the checks it makes on the numbers of a section,
\* in its order: the exception it raises, if any.
load_configuration(section) ==
    IF section.sensor_min >= section.sensor_max THEN "ConfigurationError"
    ELSE IF get_attribute_int(section.pwm_min, Fan_PWM_MIN, None) # NoExc THEN "ConfigurationError"
    ELSE IF get_attribute_int(section.pwm_max, None, Fan_PWM_MAX) # NoExc THEN "ConfigurationError"
    ELSE IF get_attribute_int(section.pwm_start, Fan_PWM_MIN, None) # NoExc THEN "ConfigurationError"
    ELSE IF get_attribute_int(section.pwm_stop, None, Fan_PWM_MAX) # NoExc THEN "ConfigurationError"
    ELSE IF section.pwm_stop >= section.pwm_max THEN "ConfigurationError"
    ELSE IF section.pwm_stop < section.pwm_min THEN "ConfigurationError"
    ELSE NoExc

(***************************************************************************)
(* PWMSensor (lib/control/pwm_sensor.py)                                   *)
(***************************************************************************)

PWM_MIN == 0
PWM_MAX == 255
PWM_ENABLE_MANUAL == 1

STATE_STOPPED == 0
STATE_STARTING == 1
STATE_RUNNING == 2
STATE_STOPPING == 3
STATE_UNKNOWN == 99

\* PWMSensor.__init__ for output o.  scheduler is <<>> for None and <<s>>
\* for a MicroScheduler s; value is the cached duty cycle of Sensor.update.
PWMSensor(o) ==
    [fans |-> fans_of(o), original_enable |-> None, state |-> STATE_UNKNOWN,
     requests |-> <<>>, last_value |-> 0, target |-> 0, scheduler |-> <<>>,
     value |-> None]

\* A call on the object self with the device files hw = [pwm, enable].
Call(self, hw) ==
    [self |-> self, hw |-> hw, io |-> <<>>, log |-> <<>>, exc |-> NoExc, ret |-> FALSE]

Logged(c, entries) == [c EXCEPT !.log = @ \o entries]

Raise(c, exception) == [c EXCEPT !.exc = exception, !.ret = FALSE]

\* __write over RawSensor.write: path is "pwm" (device_path) or "enable"
\* (enable_path).  The k-th write of a call succeeds when inp.wok[k] does.
write(c, path, pwm_value, ignore_exceptions, inp) ==
    LET ok == inp.wok[Len(c.io) + 1]
        c1 == [c EXCEPT !.io = Append(@, [path |-> path, value |-> pwm_value, ok |-> ok])]
    IN  IF ok THEN [c1 EXCEPT !.hw[path] = pwm_value, !.ret = TRUE]
        ELSE IF ~ignore_exceptions THEN Raise(c1, "ControlRuntimeError")
        ELSE [Logged(c1, <<"WARNING">>) EXCEPT !.ret = FALSE]

write_enable(c, value, ignore_exceptions, inp) ==
    write(c, "enable", value, ignore_exceptions, inp)

\* __discard_requests: with warn_dropped, the loop that logs the leftovers
\* unpacks each request as a pair, which a PWMRequest object is not
\* (TypeError, raised before the list is emptied).
discard_requests(c, warn_dropped) ==
    IF c.self.requests # <<>> /\ warn_dropped
    THEN Raise(c, "TypeError")
    ELSE [c EXCEPT !.self.requests = <<>>]

\* PWMSensor.update: Sensor.update, then __discard_requests().
update(c, inp) ==
    LET u == Sensor_update(c.self.value, IF inp.rok THEN c.hw.pwm ELSE ReadFailed)
    IN  discard_requests(Logged([c EXCEPT !.self.value = u.value], u.log), TRUE)

new_state(c, state) ==
    [c EXCEPT !.self.state = state, !.self.scheduler = <<>>, !.ret = TRUE]

\* A __next_step_value that always takes a whole step.
next_step_value_whole(last_value, target, pwm_steps) ==
    IF last_value < target THEN last_value + pwm_steps
    ELSE IF last_value > target THEN last_value - pwm_steps
    ELSE last_value

next_step_value(last_value, target, pwm_steps) ==
    IF last_value < target
    THEN last_value + Min(pwm_steps, Abs(last_value - target))
    ELSE IF last_value > target
    THEN last_value - Min(pwm_steps, Abs(last_value - target))
    ELSE last_value

\* The fans of self.fans whose tachometer, read now, does not show them
\* spinning (inp.tach[f] is what fan f's tachometer reads).
not_started(c, inp) ==
    SelectSeq(c.self.fans, LAMBDA f : ~peek_running(inp.tach[f]).ret)

\* The warnings peek_running logged for the reads that failed.
peek_log(c, inp) ==
    LET failed == SelectSeq(c.self.fans, LAMBDA f : inp.tach[f] = ReadFailed)
    IN  [i \in 1..Len(failed) |-> "WARNING"]

tick_from_starting(c, inp) ==
    IF c.self.scheduler = <<>>
    THEN [c EXCEPT !.self.scheduler = <<set_next(MicroScheduler(1 * Second, 5), time).self>>,
                   !.ret = TRUE]
    ELSE LET passed == was_passed(c.self.scheduler[1], time)
             c1 == Logged(c, passed.log \o (IF passed.ret THEN peek_log(c, inp) ELSE <<>>))
             waiting == not_started(c, inp)
             next == set_next(c.self.scheduler[1], time)
         IN  IF ~passed.ret THEN c1
             ELSE IF waiting = <<>> THEN new_state(c1, STATE_RUNNING)
             ELSE IF next.exc = "SchedulerLimitExceeded"
             THEN new_state(Logged(c1, [i \in 1..Len(waiting) |-> "ERROR"]), STATE_RUNNING)
             ELSE [c1 EXCEPT !.self.scheduler = <<next.self>>, !.ret = TRUE]

\* A __tick_from_stopping that re-arms at a deadline reached at the target,
\* as __tick_from_running does.
tick_from_stopping_rearming(c, inp) ==
    IF c.self.scheduler = <<>>
    THEN [c EXCEPT !.self.scheduler = <<set_next(MicroScheduler(Second \div 2, None), time).self>>,
                   !.ret = TRUE]
    ELSE LET passed == was_passed(c.self.scheduler[1], time)
             c1 == Logged(c, passed.log)
             next_value == next_step_value(c.self.last_value, c.self.target, 20)
             c2 == write([c1 EXCEPT !.self.last_value = next_value], "pwm", next_value, FALSE, inp)
         IN  IF ~passed.ret THEN c1
             ELSE IF c.self.last_value = c.self.target
             THEN [c1 EXCEPT !.self.scheduler = <<set_next(c.self.scheduler[1], time).self>>,
                             !.ret = TRUE]
             ELSE IF c2.exc # NoExc THEN c2
             ELSE [c2 EXCEPT !.self.scheduler = <<set_next(c.self.scheduler[1], time).self>>,
                             !.ret = TRUE]

\* __tick_from_stopping: the first call arms a scheduler of half a second;
\* at a deadline the output is STOPPED once last_value is the target, and
\* is otherwise written one step of 20 closer to it.
tick_from_stopping(c, inp) ==
    IF c.self.scheduler = <<>>
    THEN [c EXCEPT !.self.scheduler = <<set_next(MicroScheduler(Second \div 2, None), time).self>>,
                   !.ret = TRUE]
    ELSE LET passed == was_passed(c.self.scheduler[1], time)
             c1 == Logged(c, passed.log)
             next_value == next_step_value(c.self.last_value, c.self.target, 20)
             c2 == write([c1 EXCEPT !.self.last_value = next_value], "pwm", next_value, FALSE, inp)
         IN  IF ~passed.ret THEN c1
             ELSE IF c.self.last_value = c.self.target THEN new_state(c1, STATE_STOPPED)
             ELSE IF c2.exc # NoExc THEN c2
             ELSE [c2 EXCEPT !.self.scheduler = <<set_next(c.self.scheduler[1], time).self>>,
                             !.ret = TRUE]

tick_from_running(c, pwm_steps, inp) ==
    IF c.self.scheduler = <<>>
    THEN [c EXCEPT !.self.scheduler =
                       <<set_next(MicroScheduler(
                             suggest_step_delay(delay, PWM_MAX, pwm_steps, 2 * Second),
                             None), time).self>>,
                   !.ret = TRUE]
    ELSE LET passed == was_passed(c.self.scheduler[1], time)
             c1 == Logged(c, passed.log)
             rearmed == <<set_next(c.self.scheduler[1], time).self>>
             next_value == next_step_value(c.self.last_value, c.self.target, pwm_steps)
             c2 == write([c1 EXCEPT !.self.last_value = next_value], "pwm", next_value, FALSE, inp)
         IN  IF ~passed.ret THEN c1
             ELSE IF c.self.last_value = c.self.target
             THEN [c1 EXCEPT !.self.scheduler = rearmed, !.ret = TRUE]
             ELSE IF c2.exc # NoExc THEN c2
             ELSE [c2 EXCEPT !.self.scheduler = rearmed, !.ret = TRUE]

\* A u_tick that treats every other state as RUNNING.
u_tick_stepping(c, inp) ==
    IF c.self.state = STATE_STARTING THEN tick_from_starting(c, inp)
    ELSE IF c.self.state = STATE_STOPPING THEN tick_from_stopping(c, inp)
    ELSE tick_from_running(c, 20, inp)

u_tick(c, inp) ==
    IF c.self.state = STATE_STARTING THEN tick_from_starting(c, inp)
    ELSE IF c.self.state = STATE_STOPPING THEN tick_from_stopping(c, inp)
    ELSE IF c.self.state = STATE_RUNNING THEN tick_from_running(c, 20, inp)
    ELSE c

set_starting(c, pwm_start, pwm_target, inp) ==
    LET w == write(c, "pwm", pwm_start, FALSE, inp)
    IN  IF w.exc # NoExc THEN w
        ELSE IF ~w.ret THEN w
        ELSE [new_state(w, STATE_STARTING) EXCEPT !.self.target = pwm_target,
                                                   !.self.last_value = pwm_start]

\* A __plan_from_stopped that starts the fans at the largest start value.
plan_from_stopped_at_start(c, inp) ==
    LET rq == get_max(c.self.requests)
        c1 == IF rq.start # NoRequest
              THEN set_starting(c, rq.start.start_value, rq.target.target_value, inp)
              ELSE c
    IN  IF c1.exc # NoExc THEN c1 ELSE discard_requests(c1, FALSE)

\* A __plan_from_stopped that starts the fans only for a start value other
\* than 0.
plan_from_stopped_nonzero(c, inp) ==
    LET rq == get_max(c.self.requests)
        value1 == IF rq.target # NoRequest /\ rq.target.target_value > PWM_MIN
                  THEN rq.target.target_value ELSE PWM_MIN
        max_value == IF rq.start # NoRequest /\ rq.start.start_value > value1
                     THEN rq.start.start_value ELSE value1
        c1 == IF rq.start # NoRequest /\ rq.start.start_value # 0
              THEN set_starting(c, max_value, rq.target.target_value, inp)
              ELSE c
    IN  IF c1.exc # NoExc THEN c1 ELSE discard_requests(c1, FALSE)

plan_from_stopped(c, inp) ==
    LET rq == get_max(c.self.requests)
        value1 == IF rq.target # NoRequest /\ rq.target.target_value > PWM_MIN
                  THEN rq.target.target_value ELSE PWM_MIN
        max_value == IF rq.start # NoRequest /\ rq.start.start_value > value1
                     THEN rq.start.start_value ELSE value1
        c1 == IF rq.start # NoRequest
              THEN set_starting(c, max_value, rq.target.target_value, inp)
              ELSE c
    IN  IF c1.exc # NoExc THEN c1 ELSE discard_requests(c1, FALSE)

\* A __plan_from_running that stops the output at once instead of ramping.
plan_from_running_halts(c) ==
    LET target == get_max_target(c.self.requests)
        c1 == [c EXCEPT !.self.last_value = c.self.value,
                        !.self.target = IF target # None THEN target ELSE @]
        c2 == IF c1.self.target = 0 THEN new_state(c1, STATE_STOPPED) ELSE c1
    IN  IF c.self.value = None THEN Raise(c, "AttributeError")
        ELSE discard_requests(c2, FALSE)

\* A __plan_from_running that takes the start values for targets too.
plan_from_running_minds_start(c) ==
    LET rq == get_max(c.self.requests)
        target == IF rq.target = NoRequest THEN None
                  ELSE IF rq.start # NoRequest /\ rq.start.start_value > rq.target.target_value
                  THEN rq.start.start_value
                  ELSE rq.target.target_value
        c1 == [c EXCEPT !.self.last_value = c.self.value,
                        !.self.target = IF target # None THEN target ELSE @]
        c2 == IF c1.self.target = 0 THEN new_state(c1, STATE_STOPPING) ELSE c1
    IN  IF c.self.value = None THEN Raise(c, "AttributeError")
        ELSE discard_requests(c2, FALSE)

plan_from_running(c) ==
    LET target == get_max_target(c.self.requests)
        c1 == [c EXCEPT !.self.last_value = c.self.value,
                        !.self.target = IF target # None THEN target ELSE @]
        c2 == IF c1.self.target = 0 THEN new_state(c1, STATE_STOPPING) ELSE c1
    IN  IF c.self.value = None THEN Raise(c, "AttributeError")
        ELSE discard_requests(c2, FALSE)

\* A plan_ahead that plans as from RUNNING in every state but STOPPED.
plan_ahead_anyway(c, inp) ==
    IF c.self.state = STATE_STOPPED THEN plan_from_stopped(c, inp)
    ELSE plan_from_running(c)

plan_ahead(c, inp) ==
    IF c.self.state = STATE_STOPPED THEN plan_from_stopped(c, inp)
    ELSE IF c.self.state = STATE_RUNNING THEN plan_from_running(c)
    ELSE [Logged(c, <<"ERROR">>) EXCEPT !.ret = FALSE]

\* A request_value that keeps the latest request only.
request_value_latest(c, request) == [c EXCEPT !.self.requests = <<request>>]

request_value(c, request) == [c EXCEPT !.self.requests = Append(@, request)]

\* The loop of setup() that guesses the state from the cached tachometer
\* values: RUNNING at the first fan that reads above 0, else STOPPED.
RECURSIVE guess_state(_, _, _)
guess_state(fs, i, fan_value) ==
    IF i > Len(fs) THEN [state |-> STATE_STOPPED, exc |-> NoExc]
    ELSE IF fan_value[fs[i]] = None THEN [state |-> STATE_STOPPED, exc |-> "AttributeError"]
    ELSE IF fan_value[fs[i]] > 0 THEN [state |-> STATE_RUNNING, exc |-> NoExc]
    ELSE guess_state(fs, i + 1, fan_value)

\* read_original_enable over read_enable: a failed read raises
\* ControlRuntimeError.
read_original_enable(c, inp) ==
    IF ~inp.eok THEN Raise(c, "ControlRuntimeError")
    ELSE [c EXCEPT !.self.original_enable = c.hw.enable]

\* A setup() that starts last_value and target from zero.
setup_from_zero(c, inp, fan_value) ==
    LET c0 == discard_requests(c, FALSE)
        guess == guess_state(c.self.fans, 1, fan_value)
        c1 == [c0 EXCEPT !.self.state = guess.state]
        c2 == [c1 EXCEPT !.self.last_value = 0, !.self.target = 0]
        c3 == read_original_enable(c2, inp)
    IN  IF guess.exc # NoExc THEN Raise(c1, guess.exc)
        ELSE IF c.self.value = None THEN Raise(c1, "AttributeError")
        ELSE IF c3.exc # NoExc THEN c3
        ELSE write_enable(c3, PWM_ENABLE_MANUAL, FALSE, inp)

\* A setup() that keeps the requests it finds.
setup_keeping_requests(c, inp, fan_value) ==
    LET guess == guess_state(c.self.fans, 1, fan_value)
        c1 == [c EXCEPT !.self.state = guess.state]
        c2 == [c1 EXCEPT !.self.last_value = c.self.value, !.self.target = c.self.value]
        c3 == read_original_enable(c2, inp)
    IN  IF guess.exc # NoExc THEN Raise(c1, guess.exc)
        ELSE IF c.self.value = None THEN Raise(c1, "AttributeError")
        ELSE IF c3.exc # NoExc THEN c3
        ELSE write_enable(c3, PWM_ENABLE_MANUAL, FALSE, inp)

setup(c, inp, fan_value) ==
    LET c0 == discard_requests(c, FALSE)
        guess == guess_state(c.self.fans, 1, fan_value)
        c1 == [c0 EXCEPT !.self.state = guess.state]
        c2 == [c1 EXCEPT !.self.last_value = c.self.value, !.self.target = c.self.value]
        c3 == read_original_enable(c2, inp)
    IN  IF guess.exc # NoExc THEN Raise(c1, guess.exc)
        ELSE IF c.self.value = None THEN Raise(c1, "AttributeError")
        ELSE IF c3.exc # NoExc THEN c3
        ELSE write_enable(c3, PWM_ENABLE_MANUAL, FALSE, inp)

\* PWMSensor.__get_max: the largest configured pwm_max of the registered fans.
RECURSIVE max_pwm_max(_, _, _)
max_pwm_max(fs, i, default) ==
    IF i > Len(fs) THEN default
    ELSE IF i = 1 THEN max_pwm_max(fs, 2, FanConfig(fs[1]).pwm_max)
    ELSE max_pwm_max(fs, i + 1, Max(default, FanConfig(fs[i]).pwm_max))

PWMSensor_get_max(self) == max_pwm_max(self.fans, 1, PWM_MAX)

\* A shutdown() that, the enable mode restored, goes on to apply the
\* largest target requested.
shutdown_applying(c, ignore_exceptions, inp) ==
    LET e  == IF c.self.original_enable = None
              THEN Logged(c, <<"WARNING">>)
              ELSE write_enable(c, c.self.original_enable, ignore_exceptions, inp)
        target == get_max_target(c.self.requests)
        r  == IF target # None
              THEN write(Logged(e, <<"WARNING">>), "pwm", target, ignore_exceptions, inp)
              ELSE e
    IN  IF e.exc # NoExc THEN e
        ELSE IF r.exc # NoExc THEN r
        ELSE [discard_requests(r, FALSE) EXCEPT !.ret = r.ret]

shutdown(c, ignore_exceptions, inp) ==
    LET e  == IF c.self.original_enable = None
              THEN Logged(c, <<"WARNING">>)
              ELSE write_enable(c, c.self.original_enable, ignore_exceptions, inp)
        restored == c.self.original_enable # None /\ e.exc = NoExc /\ e.ret
        target == get_max_target(c.self.requests)
        r  == IF target # None
              THEN write(Logged(e, <<"WARNING">>), "pwm", target, ignore_exceptions, inp)
              ELSE e
        requested == target # None /\ r.exc = NoExc /\ r.ret
        m  == write(Logged(r, <<"ERROR">>), "pwm", PWMSensor_get_max(c.self),
                    ignore_exceptions, inp)
    IN  IF e.exc # NoExc THEN e
        ELSE IF restored THEN [discard_requests(e, FALSE) EXCEPT !.ret = TRUE]
        ELSE IF r.exc # NoExc THEN r
        ELSE IF requested THEN [discard_requests(r, FALSE) EXCEPT !.ret = TRUE]
        ELSE IF m.exc # NoExc THEN m
        ELSE IF ~m.ret THEN [discard_requests(Logged(m, <<"ERROR">>), FALSE) EXCEPT !.ret = FALSE]
        ELSE [discard_requests(m, FALSE) EXCEPT !.ret = FALSE]

(***************************************************************************)
(* State                                                                   *)
(***************************************************************************)

VARIABLES
    pwm,          \* pwm[o]: the PWMSensor object of output o
    hw,           \* hw[o]: the device files of output o, [pwm, enable]
    temp_value,   \* the TemperatureSensor's cached value (over TEMP_DIV)
    fan_value,    \* fan_value[f]: the cached value of fan f's tachometer
    call,         \* the latest call made on a component, and what it produced
    fc,           \* the FanControl object: [running, scheduler]
    handler,      \* the InterruptHandler: [interrupted, released]
    pc,           \* where control() is: [at, i]
    cycle,        \* what the current control cycle has done so far
    ramp,         \* a ramp of __next_step_value: [from, last_value, target, pwm_steps, steps]
    sched,        \* a MicroScheduler used on its own, and the latest call made on it
    probe,        \* a Sensor used on its own, and the latest call made on it
    iter,         \* a PWMIterator, and the values it has yielded
    settings,     \* a Settings object, and the latest call made on it
    asked         \* a list of PWMRequests, and the latest call made with it

objects == <<pwm, hw, temp_value, fan_value, call>>

controller == <<fc, handler, pc, cycle>>

\* The objects of the library that are studied on their own.
library == <<probe, iter, settings, asked>>

\* What no step of the controller or of a call on an output changes.
apart == <<ramp, config, sched, library>>

vars == <<config, pwm, hw, temp_value, fan_value, call, fc, handler, pc, cycle, ramp, sched,
          probe, iter, settings, asked>>

\* What the device files may hold when the program starts: the duty cycle
\* the chipset left, and the chipset's control mode.
InitialDuty == {50}

InitialEnable == {2}

\* What a tachometer and the temperature sensor may read.
TachReadings == {0, 1200}

TempReadings == {20000, 70000}

\* time.sleep(.3), the slice between two rounds of u_tick.
Sleep == (3 * Second) \div 10

\* The inputs of a call: whether the read of the device file and of the
\* enable file succeed, whether each write in turn succeeds, and what each
\* tachometer reads.
Inputs(rok, eok, wok, tach) == [rok |-> rok, eok |-> eok, wok |-> wok, tach |-> tach]

NoFault == Inputs(TRUE, TRUE, <<TRUE, TRUE, TRUE>>, [f \in Fans |-> 0])

Flags(n) == [1..n -> BOOLEAN]

TachInputs == [Fans -> TachReadings \cup {ReadFailed}]

\* The record of a call: the operation, the object it was made on, and what
\* the call context c holds when it returns.
Called(op, on, c) ==
    [op |-> op, on |-> on, exc |-> c.exc, io |-> c.io, log |-> c.log, ret |-> c.ret]

NoCall == [op |-> "none", on |-> 0, exc |-> NoExc, io |-> <<>>, log |-> <<>>, ret |-> FALSE]

\* A call on output o returned the context c.
Returned(op, o, c) ==
    /\ pwm' = [pwm EXCEPT ![o] = c.self]
    /\ hw' = [hw EXCEPT ![o] = c.hw]
    /\ call' = Called(op, o, c)

\* d units of time pass: every armed scheduler's timestamps move d into the
\* past.  was_passed cannot tell ages beyond 2 * step_delay apart, and the
\* age is kept there.
Aged(s, d) ==
    IF ~s.next_set THEN s
    ELSE LET at == Max(s.last_updated - d, -(2 * s.step_delay + 1))
         IN  [s EXCEPT !.last_updated = at, !.trigger_at = at + s.step_delay]

AgedAll(ss, d) == [i \in 1..Len(ss) |-> Aged(ss[i], d)]

Passing(d) ==
    /\ pwm' = [o \in Outputs |-> [pwm[o] EXCEPT !.scheduler = AgedAll(@, d)]]
    /\ fc' = [fc EXCEPT !.scheduler = AgedAll(@, d)]

InitObjects ==
    /\ config = [f \in Fans |-> Sections(f)]
    /\ pwm = [o \in Outputs |-> PWMSensor(o)]
    /\ hw \in [Outputs -> [pwm : InitialDuty, enable : InitialEnable]]
    /\ temp_value = None
    /\ fan_value = [f \in Fans |-> None]
    /\ call = NoCall

\* FanControl.__init__ and InterruptHandler.__enter__.  pc holds where
\* control() is (at, and the index i of the loop it is in) and the
\* ignore_exceptions its __shutdown was called with; cycle holds what the
\* current control cycle has done: the sensors updated, the fans that
\* submitted, the outputs that planned (in order), whether a tick was made,
\* for the shutdown, the components shut down (in order), and whether
\* __failsafe was called.
NoRamp == [from |-> 0, last_value |-> 0, target |-> 0, pwm_steps |-> 1, steps |-> 0]

\* No MicroScheduler is used on its own: sched holds the scheduler (self),
\* the latest call made on it (op, now, and the exc, ret and log it
\* produced), the calls of set_next that succeeded since the limit was set
\* (granted) and whether set_next was called since the last clear (armed).
NoSched ==
    [self |-> MicroScheduler(1, None), op |-> "none", now |-> 0, exc |-> NoExc,
     ret |-> FALSE, log |-> <<>>, granted |-> 0, armed |-> FALSE]

\* No Sensor, PWMIterator or Settings is used on its own.  probe holds the
\* cached value (None: the attribute is not set), the latest call (op), the
\* device file it read, and the exc and log it produced; iter holds the
\* iterator (self), whether __iter__ was called and __next__ has raised
\* StopIteration, and the values yielded; settings holds the ConfigParser
\* (sections), the latest call and the exception it raised.
NoSensor ==
    [value |-> None, op |-> "none", file |-> [kind |-> "data", value |-> 0],
     exc |-> NoExc, log |-> <<>>]

NoIter ==
    [self |-> [start |-> 0, end |-> 0, step |-> 1, started |-> FALSE, value |-> None],
     iterating |-> FALSE, stopped |-> FALSE, values |-> <<>>]

NoSettings ==
    [sections |-> <<>>, op |-> "none", section |-> "", new_name |-> "", key |-> "",
     exc |-> NoExc, ret |-> FALSE]

\* No request submitted, no call made.
NoAsked == [requests |-> <<>>, op |-> "none", ret |-> None]

InitLibrary ==
    probe = NoSensor /\ iter = NoIter /\ settings = NoSettings /\ asked = NoAsked

NoCycle ==
    [updated |-> {}, requested |-> {}, planned |-> <<>>, ticked |-> FALSE, closed |-> <<>>,
     failsafe |-> FALSE]

InitController ==
    /\ fc = [running |-> FALSE, scheduler |-> <<>>]
    /\ handler = [interrupted |-> FALSE, released |-> FALSE]
    /\ pc = [at |-> "created", i |-> 1, ignore_exceptions |-> FALSE]
    /\ cycle = NoCycle
    /\ ramp = NoRamp
    /\ sched = NoSched
    /\ InitLibrary

(***************************************************************************)
(* SpecAPI: the calls a client may make on one PWM output (output 1,       *)
(* shared by fans 1 and 2), in any order, with time passing in between.    *)
(* pc.at follows the life of the object: "created" until setup() is        *)
(* called, "ready" after it returned, "failed" once a call has raised (the *)
(* client then only shuts down), "closing" once the fans were told to shut *)
(* down, "closed" once shutdown() was called.  Each fan has at most one    *)
(* request pending besides the one it submits at shutdown.                 *)
(***************************************************************************)

UnderTest == {1}

\* The requests submitted while the output is in use: a fan that is
\* spinning, a fan at rest that wants to end above or below its start value,
\* a request to stop, and a fan at rest whose pwm_start is 0.
Requests ==
    { PWMRequest(1, 50, None), PWMRequest(2, 90, 80), PWMRequest(1, 0, None), PWMRequest(2, 60, 80),
      PWMRequest(1, 50, 0) }

\* The time that passes between two calls.
Slice == Second

\* The tachometer readings of a call on output o: those of its own fans.
TachInputsOf(o) ==
    { t \in TachInputs : \A f \in Fans : FanConfig(f).device # o => t[f] = 0 }

\* Fan f has a request pending on output o.
Pending(o, f) ==
    \E i \in 1..Len(pwm[o].requests) : pwm[o].requests[i].requester = f

\* The call returned the context c: an exception ends the use of the object.
After(c, at) == pc' = [pc EXCEPT !.at = IF c.exc = NoExc THEN at ELSE "failed"]

\* What the tachometers' caches hold when the output is set up: every fan
\* at rest, the second fan spinning, or no successful read yet.
TachCaches ==
    { [f \in Fans |-> 0], [f \in Fans |-> IF f = 2 THEN 1200 ELSE 0], [f \in Fans |-> None] }

APISetup(o) ==
    /\ pc.at = "created"
    /\ \E eok, wok \in BOOLEAN, cached \in TachCaches :
          LET c == setup(Call(pwm[o], hw[o]), Inputs(TRUE, eok, <<wok>>, NoFault.tach), cached)
          IN  Returned("setup", o, c) /\ After(c, "ready")
    /\ UNCHANGED <<temp_value, fan_value, fc, handler, cycle>>
    /\ UNCHANGED apart

APIUpdate(o) ==
    /\ pc.at \in {"created", "ready"}
    /\ \E rok \in BOOLEAN :
          LET c == update(Call(pwm[o], hw[o]), Inputs(rok, TRUE, <<>>, NoFault.tach))
          IN  Returned("update", o, c) /\ After(c, pc.at)
    /\ UNCHANGED <<temp_value, fan_value, fc, handler, cycle>>
    /\ UNCHANGED apart

APIRequestValue(o) ==
    /\ pc.at \in {"created", "ready"}
    /\ \E request \in Requests :
          /\ ~Pending(o, request.requester)
          /\ Returned("request_value", o, request_value(Call(pwm[o], hw[o]), request))
    /\ UNCHANGED <<temp_value, fan_value, controller>>
    /\ UNCHANGED apart

APIPlanAhead(o) ==
    /\ pc.at \in {"created", "ready"}
    /\ \E wok \in BOOLEAN :
          LET c == plan_ahead(Call(pwm[o], hw[o]), Inputs(TRUE, TRUE, <<wok>>, NoFault.tach))
          IN  Returned("plan_ahead", o, c) /\ After(c, pc.at)
    /\ UNCHANGED <<temp_value, fan_value, fc, handler, cycle>>
    /\ UNCHANGED apart

APIUTick(o) ==
    /\ pc.at \in {"created", "ready"}
    /\ \E wok \in BOOLEAN, tach \in TachInputsOf(o) :
          LET c == u_tick(Call(pwm[o], hw[o]), Inputs(TRUE, TRUE, <<wok>>, tach))
          IN  Returned("u_tick", o, c) /\ After(c, pc.at)
    /\ UNCHANGED <<temp_value, fan_value, fc, handler, cycle>>
    /\ UNCHANGED apart

RECURSIVE shutdown_fans(_, _)
\* Fan.shutdown of the first n fans of the output, in the order of its list.
shutdown_fans(c, n) ==
    IF n = 0 THEN c
    ELSE request_value(shutdown_fans(c, n - 1), shutdown_request(c.self.fans[n]))

APIShutdownFans(o) ==
    /\ pc.at \in {"created", "ready", "failed"}
    /\ Returned("request_value", o, shutdown_fans(Call(pwm[o], hw[o]), Len(pwm[o].fans)))
    /\ pc' = [pc EXCEPT !.at = "closing"]
    /\ UNCHANGED <<temp_value, fan_value, fc, handler, cycle>>
    /\ UNCHANGED apart

APIShutdown(o) ==
    /\ pc.at \in {"created", "failed", "closing"}
    /\ \E ignore_exceptions \in BOOLEAN, wok \in Flags(3) :
          Returned("shutdown", o,
                   shutdown(Call(pwm[o], hw[o]), ignore_exceptions,
                            Inputs(TRUE, TRUE, wok, NoFault.tach)))
    /\ pc' = [pc EXCEPT !.at = "closed"]
    /\ UNCHANGED <<temp_value, fan_value, fc, handler, cycle>>
    /\ UNCHANGED apart

APIElapse ==
    /\ pc.at = "ready"
    /\ Passing(Slice)
    /\ call' = [NoCall EXCEPT !.op = "sleep"]
    /\ UNCHANGED <<hw, temp_value, fan_value, handler, pc, cycle>>
    /\ UNCHANGED apart

NextAPI ==
    \/ \E o \in UnderTest : APISetup(o)
    \/ \E o \in UnderTest : APIUpdate(o)
    \/ \E o \in UnderTest : APIRequestValue(o)
    \/ \E o \in UnderTest : APIPlanAhead(o)
    \/ \E o \in UnderTest : APIUTick(o)
    \/ \E o \in UnderTest : APIShutdownFans(o)
    \/ \E o \in UnderTest : APIShutdown(o)
    \/ APIElapse

\* The device files of an output no call is made on.
Idle == [pwm |-> 50, enable |-> 2]

InitAPI ==
    /\ config = [f \in Fans |-> Sections(f)]
    /\ pwm = [o \in Outputs |-> PWMSensor(o)]
    /\ hw \in [Outputs -> [pwm : InitialDuty, enable : InitialEnable]]
    /\ \A o \in Outputs \ UnderTest : hw[o] = Idle
    /\ temp_value = None
    /\ fan_value = [f \in Fans |-> None]
    /\ call = NoCall
    /\ InitController

SpecAPI == InitAPI /\ [][NextAPI]_vars

(***************************************************************************)
(* SpecStopping: the calls on one output of a client that keeps calling,   *)
(* on devices whose reads and writes succeed.  No call raises, the fans    *)
(* ask for a duty cycle, for a start or for a stop, u_tick() keeps being   *)
(* called (the tick-wait loop of control() calls it every .3 seconds) and  *)
(* time keeps passing.                                                     *)
(***************************************************************************)

StoppingRequests == {PWMRequest(1, 50, None), PWMRequest(2, 90, 80), PWMRequest(1, 0, None)}

\* The call of the step did not raise, every write it made succeeded, and
\* the requests pending after it are among StoppingRequests.
Provided ==
    /\ pc'.at \in {"created", "ready"}
    /\ \A i \in 1..Len(call'.io) : call'.io[i].ok
    /\ \A o \in UnderTest : \A i \in 1..Len(pwm'[o].requests) :
          pwm'[o].requests[i] \in StoppingRequests

NextStopping ==
    \/ \E o \in UnderTest : APISetup(o) /\ Provided
    \/ \E o \in UnderTest : APIUpdate(o) /\ Provided
    \/ \E o \in UnderTest : APIRequestValue(o) /\ Provided
    \/ \E o \in UnderTest : APIPlanAhead(o) /\ Provided
    \/ \E o \in UnderTest : APIUTick(o) /\ Provided
    \/ APIElapse

SpecStopping ==
    /\ InitAPI /\ [][NextStopping]_vars
    /\ \A o \in UnderTest : WF_vars(APIUTick(o) /\ Provided)
    /\ WF_vars(APIElapse)

(***************************************************************************)
(* Spec: FanControl.control() (fancontrol.py) over the three fans and two  *)
(* outputs, one step of its loops at a time.  A SIGINT may arrive between  *)
(* any two steps.  Only time.sleep takes time.                             *)
(***************************************************************************)

At(at, i) == pc' = [pc EXCEPT !.at = at, !.i = i]

\* The fans that may stall: read 0 though they are driven.
MayStall == {3}

\* What the tachometer of fan f may read now: 0 when its output is at or
\* below the duty cycle at which the fan stops.
Tachometer(f) ==
    IF hw[FanConfig(f).device].pwm <= FanConfig(f).pwm_stop THEN {0}
    ELSE IF f \in MayStall THEN TachReadings
    ELSE TachReadings \ {0}

\* An exception leaves control(): nothing of it runs any more.
Crashed == pc' = [pc EXCEPT !.at = "crashed"]

\* The steps of control() that run inside its try block.
InTry == {"set_next", "update_sensors", "update_fans", "plan", "wait", "check", "sleep", "u_tick"}

\* control(): running = True and the cycle scheduler, then __setup().
Start ==
    /\ pc.at = "created"
    /\ fc' = [running |-> TRUE, scheduler |-> <<MicroScheduler(delay, None)>>]
    /\ At("setup_sensors", 1)
    /\ UNCHANGED <<objects, handler, cycle>>
    /\ UNCHANGED apart

\* The phases of __setup and of __control, in order, and what follows them.
setup_phases == <<"setup_sensors", "setup_fans", "setup_pwm", "loop">>

\* A __control that lets the fans compute before the sensors are updated.
control_phases_fans_first == <<"update_fans", "update_sensors", "plan", "wait">>

control_phases == <<"update_sensors", "update_fans", "plan", "wait">>

PhaseAfter(phases, at) ==
    phases[(CHOOSE k \in 1..Len(phases) : phases[k] = at) + 1]

AfterPhase(at) ==
    IF at \in {"setup_sensors", "setup_fans", "setup_pwm"}
    THEN PhaseAfter(setup_phases, at)
    ELSE PhaseAfter(control_phases, at)

\* The next index of a loop over n items, or the next phase.
Advance(n) ==
    IF pc.i < n THEN At(pc.at, pc.i + 1) ELSE At(AfterPhase(pc.at), 1)

\* __update_sensors, one sensor: sensors[pc.i].update().
UpdateSensor ==
    /\ pc.at \in {"setup_sensors", "update_sensors"}
    /\ LET sensor == sensors[pc.i]
       IN  \/ /\ sensor.kind = "temp"
              /\ \E reading \in TempReadings \cup {ReadFailed} :
                    LET u == Sensor_update(temp_value, reading)
                    IN  /\ temp_value' = u.value
                        /\ call' = [NoCall EXCEPT !.op = "update", !.log = u.log]
              /\ Advance(Len(sensors))
              /\ UNCHANGED <<pwm, hw, fan_value>>
           \/ /\ sensor.kind = "fan"
              /\ \E reading \in Tachometer(sensor.id) \cup {ReadFailed} :
                    LET u == Sensor_update(fan_value[sensor.id], reading)
                    IN  /\ fan_value' = [fan_value EXCEPT ![sensor.id] = u.value]
                        /\ call' = [NoCall EXCEPT !.op = "update", !.log = u.log]
              /\ Advance(Len(sensors))
              /\ UNCHANGED <<pwm, hw, temp_value>>
           \/ /\ sensor.kind = "pwm"
              /\ \E rok \in BOOLEAN :
                    LET c == update(Call(pwm[sensor.id], hw[sensor.id]),
                                    Inputs(rok, TRUE, <<>>, NoFault.tach))
                    IN  /\ Returned("update", sensor.id, c)
                        /\ IF c.exc = NoExc THEN Advance(Len(sensors)) ELSE Crashed
              /\ UNCHANGED <<temp_value, fan_value>>
    /\ cycle' = [cycle EXCEPT !.updated = @ \cup {sensors[pc.i]}]
    /\ UNCHANGED <<fc, handler>>
    /\ UNCHANGED apart

\* __setup_fans and __update_fans, one fan: Fan.setup() and Fan.update()
\* both submit what __calculate returns.
UpdateFan ==
    /\ pc.at \in {"setup_fans", "update_fans"}
    /\ LET f == fans[pc.i]
           o == FanConfig(f).device
           request == calculate(f, temp_value, fan_value[f])
       IN  IF request.exc # NoExc
           THEN /\ call' = [NoCall EXCEPT !.op = "calculate", !.on = o, !.exc = request.exc]
                /\ Crashed
                /\ UNCHANGED <<pwm, hw, cycle>>
           ELSE /\ Returned("request_value", o, request_value(Call(pwm[o], hw[o]), request.ret))
                /\ Advance(Len(fans))
                /\ cycle' = [cycle EXCEPT !.requested = @ \cup {f}]
    /\ UNCHANGED <<temp_value, fan_value, fc, handler>>
    /\ UNCHANGED apart

\* __setup_pwm, one output: PWMSensor.setup().  A ControlRuntimeError ends
\* __setup: running = False and __failsafe(), which is
\* __shutdown(ignore_exceptions=True).
\* A __setup that calls __failsafe but leaves running as it is.
SetupPWM_keeps_running ==
    /\ pc.at = "setup_pwm"
    /\ \E eok, wok \in BOOLEAN :
          LET o == outputs[pc.i]
              c == setup(Call(pwm[o], hw[o]), Inputs(TRUE, eok, <<wok>>, NoFault.tach), fan_value)
          IN  /\ Returned("setup", o, c)
              /\ IF c.exc = NoExc
                 THEN Advance(Len(outputs)) /\ UNCHANGED <<fc, cycle>>
                 ELSE IF c.exc = "ControlRuntimeError"
                 THEN /\ UNCHANGED fc
                      /\ pc' = [at |-> "shutdown_fans", i |-> 1, ignore_exceptions |-> TRUE]
                      /\ cycle' = [cycle EXCEPT !.failsafe = TRUE]
                 ELSE Crashed /\ UNCHANGED <<fc, cycle>>
    /\ UNCHANGED <<temp_value, fan_value, handler>>
    /\ UNCHANGED apart

SetupPWM ==
    /\ pc.at = "setup_pwm"
    /\ \E eok, wok \in BOOLEAN :
          LET o == outputs[pc.i]
              c == setup(Call(pwm[o], hw[o]), Inputs(TRUE, eok, <<wok>>, NoFault.tach), fan_value)
          IN  /\ Returned("setup", o, c)
              /\ IF c.exc = NoExc
                 THEN Advance(Len(outputs)) /\ UNCHANGED <<fc, cycle>>
                 ELSE IF c.exc = "ControlRuntimeError"
                 THEN /\ fc' = [fc EXCEPT !.running = FALSE]
                      /\ pc' = [at |-> "shutdown_fans", i |-> 1, ignore_exceptions |-> TRUE]
                      /\ cycle' = [cycle EXCEPT !.failsafe = TRUE]
                 ELSE Crashed /\ UNCHANGED <<fc, cycle>>
    /\ UNCHANGED <<temp_value, fan_value, handler>>
    /\ UNCHANGED apart

\* while self.running: ... and, after the loop, __shutdown().
LoopTop ==
    /\ pc.at = "loop"
    /\ IF fc.running
       THEN At("set_next", 1)
       ELSE pc' = [at |-> "shutdown_fans", i |-> 1, ignore_exceptions |-> FALSE]
    /\ UNCHANGED <<objects, fc, handler, cycle>>
    /\ UNCHANGED apart

\* self.scheduler.set_next(): a control cycle begins.
SetNext ==
    /\ pc.at = "set_next"
    /\ fc' = [fc EXCEPT !.scheduler = <<set_next(fc.scheduler[1], time).self>>]
    /\ cycle' = [NoCycle EXCEPT !.failsafe = cycle.failsafe]
    /\ At(control_phases[1], 1)
    /\ UNCHANGED <<objects, handler>>
    /\ UNCHANGED apart

\* __control_done, one output: plan_ahead().
Plan ==
    /\ pc.at = "plan"
    /\ \E wok \in BOOLEAN :
          LET o == outputs[pc.i]
              c == plan_ahead(Call(pwm[o], hw[o]), Inputs(TRUE, TRUE, <<wok>>, NoFault.tach))
          IN  /\ Returned("plan_ahead", o, c)
              /\ IF c.exc = NoExc THEN Advance(Len(outputs)) ELSE Crashed
              /\ cycle' = [cycle EXCEPT !.planned = Append(@, o)]
    /\ UNCHANGED <<temp_value, fan_value, fc, handler>>
    /\ UNCHANGED apart

\* while self.running and not self.scheduler.was_passed():
Wait ==
    /\ pc.at = "wait"
    /\ IF fc.running /\ ~was_passed(fc.scheduler[1], time).ret
       THEN At("check", 1)
       ELSE At("loop", 1)
    /\ UNCHANGED <<objects, fc, handler, cycle>>
    /\ UNCHANGED apart

\* if self.check_interrupt(interrupt_handler):
check_interrupt ==
    /\ pc.at = "check"
    /\ IF handler.interrupted
       THEN fc' = [fc EXCEPT !.running = FALSE] /\ At("wait", 1)
       ELSE UNCHANGED fc /\ At("sleep", 1)
    /\ UNCHANGED <<objects, handler, cycle>>
    /\ UNCHANGED apart

\* time.sleep(.3)
SleepStep ==
    /\ pc.at = "sleep"
    /\ Passing(Sleep)
    /\ At("u_tick", 1)
    /\ UNCHANGED <<hw, temp_value, fan_value, call, handler, cycle>>
    /\ UNCHANGED apart

\* __u_control, one output: u_tick().
UTick ==
    /\ pc.at = "u_tick"
    /\ \E wok \in BOOLEAN, tach \in { t \in TachInputsOf(outputs[pc.i]) :
                                         \A f \in Fans : FanConfig(f).device = outputs[pc.i]
                                             => t[f] \in Tachometer(f) \cup {ReadFailed} } :
          LET o == outputs[pc.i]
              c == u_tick(Call(pwm[o], hw[o]), Inputs(TRUE, TRUE, <<wok>>, tach))
          IN  /\ Returned("u_tick", o, c)
              /\ IF c.exc # NoExc THEN Crashed
                 ELSE IF pc.i < Len(outputs) THEN At("u_tick", pc.i + 1) ELSE At("wait", 1)
    /\ cycle' = [cycle EXCEPT !.ticked = TRUE]
    /\ UNCHANGED <<temp_value, fan_value, fc, handler>>
    /\ UNCHANGED apart

\* __shutdown_fans, one fan: Fan.shutdown().
ShutdownFan ==
    /\ pc.at = "shutdown_fans"
    /\ LET f == fans[pc.i]
           o == FanConfig(f).device
       IN  /\ Returned("request_value", o,
                       request_value(Call(pwm[o], hw[o]), shutdown_request(f)))
           /\ cycle' = [cycle EXCEPT !.closed =
                            (IF pc.i = 1 THEN <<>> ELSE @) \o <<[kind |-> "fan", id |-> f]>>]
    /\ IF pc.i < Len(fans) THEN At("shutdown_fans", pc.i + 1) ELSE At("shutdown_pwm", 1)
    /\ UNCHANGED <<temp_value, fan_value, fc, handler>>
    /\ UNCHANGED apart

\* __shutdown_pwm, one output: PWMSensor.shutdown(ignore_exceptions).  The
\* try of __shutdown is around the whole loop: a ControlRuntimeError ends
\* it.  __failsafe returns into control(), whose loop then ends.
ShutdownPWM ==
    /\ pc.at = "shutdown_pwm"
    /\ \E wok \in Flags(3) :
          LET o == outputs[pc.i]
              c == shutdown(Call(pwm[o], hw[o]), pc.ignore_exceptions,
                            Inputs(TRUE, TRUE, wok, NoFault.tach))
          IN  /\ Returned("shutdown", o, c)
              /\ IF c.exc = NoExc /\ pc.i < Len(outputs) THEN At("shutdown_pwm", pc.i + 1)
                 ELSE IF pc.ignore_exceptions
                 THEN pc' = [at |-> "loop", i |-> 1, ignore_exceptions |-> FALSE]
                 ELSE At("done", 1)
              /\ cycle' = [cycle EXCEPT !.closed = Append(@, [kind |-> "pwm", id |-> o])]
    /\ UNCHANGED <<temp_value, fan_value, fc, handler>>
    /\ UNCHANGED apart

\* SIGINT.  The handler of InterruptHandler puts the original handler back
\* and sets interrupted; a further SIGINT raises KeyboardInterrupt, which
\* control() catches inside its try block only.
Signal ==
    /\ pc.at \notin {"done", "crashed"}
    /\ IF ~handler.released
       THEN /\ handler' = [interrupted |-> TRUE, released |-> TRUE]
            /\ UNCHANGED <<objects, fc, pc, cycle>>
       ELSE /\ call' = [NoCall EXCEPT !.op = "signal", !.exc = "KeyboardInterrupt"]
            /\ IF pc.at \in InTry
               THEN fc' = [fc EXCEPT !.running = FALSE] /\ At("loop", 1)
               ELSE UNCHANGED fc /\ Crashed
            /\ UNCHANGED <<pwm, hw, temp_value, fan_value, handler, cycle>>
    /\ UNCHANGED apart

Next ==
    \/ Start
    \/ UpdateSensor
    \/ UpdateFan
    \/ SetupPWM
    \/ LoopTop
    \/ SetNext
    \/ Plan
    \/ Wait
    \/ check_interrupt
    \/ SleepStep
    \/ UTick
    \/ ShutdownFan
    \/ ShutdownPWM
    \/ Signal

Init == InitObjects /\ InitController

Spec == Init /\ [][Next]_vars

\* control() is one sequential program: while a step of it can be taken, one
\* is taken.  Whether a signal arrives is left open.
SpecCycling == Spec /\ WF_vars(Next)

(***************************************************************************)
(* SpecSlow: the controller when a cycle may take longer than the delay.   *)
(* In Spec time passes in time.sleep(.3) alone; here the reads of          *)
(* __update_sensors and __update_fans may take more than the cycle's delay *)
(* (a slow bus, a short delay, a clock set forward), so that the deadline  *)
(* set at the top of the cycle has passed when the tick-wait loop is       *)
(* reached.                                                                *)
(***************************************************************************)

Overrun ==
    /\ pc.at = "plan" /\ pc.i = 1
    /\ Passing(delay + Sleep)
    /\ UNCHANGED <<hw, temp_value, fan_value, call, handler, pc, cycle>>
    /\ UNCHANGED apart

NextSlow == Next \/ Overrun

SpecSlow == Init /\ [][NextSlow]_vars /\ WF_vars(Next)

(***************************************************************************)
(* SpecRamp: __next_step_value applied over and over, as the ticks of a    *)
(* ramp apply it, from any last_value towards any target with any step.    *)
(***************************************************************************)

\* The largest duty cycle and the largest step of the ramps explored.
RampMax == 12

MaxStep == 5

InitRamp ==
    /\ InitObjects
    /\ fc = [running |-> FALSE, scheduler |-> <<>>]
    /\ handler = [interrupted |-> FALSE, released |-> FALSE]
    /\ pc = [at |-> "ramp", i |-> 1, ignore_exceptions |-> FALSE]
    /\ cycle = NoCycle
    /\ sched = NoSched
    /\ InitLibrary
    /\ \E last_value, target \in 0..RampMax, pwm_steps \in 1..MaxStep :
          ramp = [from |-> last_value, last_value |-> last_value, target |-> target,
                  pwm_steps |-> pwm_steps, steps |-> 0]

\* self.last_value = self.__next_step_value(pwm_steps)
RampStep ==
    /\ ramp.steps <= RampMax
    /\ ramp' = [ramp EXCEPT !.last_value = next_step_value(ramp.last_value, ramp.target,
                                                            ramp.pwm_steps),
                            !.steps = @ + 1]
    /\ UNCHANGED <<objects, controller, config, sched, library>>

NextRamp == RampStep

SpecRamp == InitRamp /\ [][NextRamp]_vars

(***************************************************************************)
(* SpecSections: control() as in Spec, started with any section for fan 3  *)
(* that load_configuration accepts.                                        *)
(***************************************************************************)

\* The fan whose section varies.
Studied == 3

\* The numbers the section may give for pwm_max and for pwm_start.
MaxSettings == {60, 300}

StartSettings == {-5, 50, 300}

StudiedSections ==
    { [Sections(Studied) EXCEPT !.pwm_max = b, !.pwm_start = c] :
         b \in MaxSettings, c \in StartSettings }

\* FanControl.__init__: __load_fans creates the fans, each loading its
\* section; a section that is refused ends the program before control().
InitSections ==
    /\ \E section \in StudiedSections :
          /\ load_configuration(section) = NoExc
          /\ config = [f \in Fans |-> IF f = Studied THEN section ELSE Sections(f)]
    /\ pwm = [o \in Outputs |-> PWMSensor(o)]
    /\ hw \in [Outputs -> [pwm : InitialDuty, enable : InitialEnable]]
    /\ temp_value = None
    /\ fan_value = [f \in Fans |-> None]
    /\ call = NoCall
    /\ InitController

SpecSections == InitSections /\ [][Next]_vars

(***************************************************************************)
(* SpecCalc: Fan.__calculate for one fan (fan 3), over the sections that   *)
(* load_configuration accepts and the readings of its sensors.             *)
(***************************************************************************)

\* The numbers a section may give for pwm_min, pwm_max, pwm_start and
\* pwm_stop, and the temperature ranges it may give.
PwmSettings == {-5, 0, 40, 255, 300}

SensorSettings == { <<20, 60>>, <<60, 20>>, <<30, 30>>, <<30, 31>> }

\* A fan that maps 20..60 degrees onto the whole range of duty cycles.
WholeRange ==
    [device |-> 2, sensor_min |-> 20, sensor_max |-> 60,
     pwm_min |-> 0, pwm_max |-> 255, pwm_start |-> 100, pwm_stop |-> 40]

FanSections ==
    { [device |-> 2, sensor_min |-> r[1], sensor_max |-> r[2],
       pwm_min |-> a, pwm_max |-> b, pwm_start |-> c, pwm_stop |-> d] :
         r \in SensorSettings, a \in PwmSettings, b \in PwmSettings,
         c \in PwmSettings, d \in PwmSettings } \cup {WholeRange}

\* What the temperature sensor may have read (millidegrees) and what the
\* tachometer may have read.
CalcTemps == {15000, 20000, 20100, 30500, 40000, 59900, 60000, 65000}

\* Fan.setup and Fan.update: self.device.request_value(self.__calculate()).
FanUpdate(f) ==
    /\ pc.at = "created"
    /\ ~Pending(FanConfig(f).device, f)
    /\ LET o == FanConfig(f).device
           request == calculate(f, temp_value, fan_value[f])
       IN  IF request.exc # NoExc
           THEN /\ call' = [NoCall EXCEPT !.op = "calculate", !.on = o, !.exc = request.exc]
                /\ pc' = [pc EXCEPT !.at = "failed"]
                /\ UNCHANGED <<pwm, hw>>
           ELSE /\ Returned("request_value", o, request_value(Call(pwm[o], hw[o]), request.ret))
                /\ UNCHANGED pc
    /\ UNCHANGED <<temp_value, fan_value, fc, handler, cycle>>
    /\ UNCHANGED apart

NextCalc == FanUpdate(Studied)

InitCalc ==
    /\ \E section \in FanSections :
          /\ load_configuration(section) = NoExc
          /\ config = [f \in Fans |-> IF f = Studied THEN section ELSE Sections(f)]
    /\ pwm = [o \in Outputs |-> PWMSensor(o)]
    /\ hw = [o \in Outputs |-> Idle]
    /\ temp_value \in CalcTemps
    /\ fan_value \in { v \in [Fans -> TachReadings \cup {None}] :
                           \A f \in Fans \ {Studied} : v[f] = None }
    /\ call = NoCall
    /\ InitController

SpecCalc == InitCalc /\ [][NextCalc]_vars

(***************************************************************************)
(* SpecSched: a MicroScheduler used on its own, as test_scheduler.py uses  *)
(* it: set_limit, clear, set_next(now) and was_passed(now) in any order,   *)
(* with any clock reading now, also one that went back.                    *)
(***************************************************************************)

\* The largest clock reading, the largest limit, and the step delays.
MaxNow == 12

MaxLimit == 3

StepDelays == {2, 4}

Clock == 0..MaxNow

Limits == {None} \cup (0..MaxLimit)

\* The call op(now) was made on the scheduler and left it as self, having
\* raised exc or returned ret, and logged log.
SchedCalled(self, op, now, exc, ret, log) ==
    [sched EXCEPT !.self = self, !.op = op, !.now = now, !.exc = exc, !.ret = ret, !.log = log]

SchedSetLimit ==
    \E limit \in Limits :
       sched' = [SchedCalled(set_limit(sched.self, limit), "set_limit", 0, NoExc, FALSE, <<>>)
                    EXCEPT !.granted = 0]

SchedClear ==
    sched' = [SchedCalled(clear(sched.self), "clear", 0, NoExc, FALSE, <<>>)
                 EXCEPT !.armed = FALSE]

SchedSetNext ==
    /\ sched.granted <= MaxLimit
    /\ \E now \in Clock :
          LET c == set_next(sched.self, now)
          IN  sched' = [SchedCalled(c.self, "set_next", now, c.exc, FALSE, <<>>)
                           EXCEPT !.granted = IF c.exc = NoExc THEN @ + 1 ELSE @,
                                  !.armed = TRUE]

SchedWasPassed ==
    \E now \in Clock :
       LET c == was_passed(sched.self, now)
       IN  sched' = SchedCalled(sched.self, "was_passed", now, c.exc, c.ret, c.log)

NextSched ==
    \/ SchedSetLimit /\ UNCHANGED <<objects, controller, config, ramp, library>>
    \/ SchedClear /\ UNCHANGED <<objects, controller, config, ramp, library>>
    \/ SchedSetNext /\ UNCHANGED <<objects, controller, config, ramp, library>>
    \/ SchedWasPassed /\ UNCHANGED <<objects, controller, config, ramp, library>>

InitSched ==
    /\ InitObjects
    /\ fc = [running |-> FALSE, scheduler |-> <<>>]
    /\ handler = [interrupted |-> FALSE, released |-> FALSE]
    /\ pc = [at |-> "scheduler", i |-> 1, ignore_exceptions |-> FALSE]
    /\ cycle = NoCycle
    /\ ramp = NoRamp
    /\ InitLibrary
    /\ \E step_delay \in StepDelays, limit \in Limits :
          sched = [NoSched EXCEPT !.self = MicroScheduler(step_delay, limit)]

SpecSched == InitSched /\ [][NextSched]_vars

(***************************************************************************)
(* SpecSensor: the calls made on one Sensor, in any order, whatever its    *)
(* device file gives at each read.                                         *)
(***************************************************************************)

\* The readings of the device file are multiples of 300 up to 300 * MaxReading.
MaxReading == 7

SensorReadings == { 300 * k : k \in 0..MaxReading }

DeviceFiles ==
    { DeviceFile("data", v) : v \in SensorReadings }
        \cup { DeviceFile(kind, 0) : kind \in {"garbled", "missing", "unreadable"} }

ProbeUpdate ==
    \E file \in DeviceFiles :
       LET u == Sensor_update_from(probe.value, file)
       IN  probe' = [value |-> u.value, op |-> "update", file |-> file, exc |-> u.exc,
                     log |-> u.log]

ProbeGetValue ==
    probe' = [probe EXCEPT !.op = "get_value", !.file = NoSensor.file,
                           !.exc = RawSensor_get_value(probe.value).exc, !.log = <<>>]

ProbeGetTitle ==
    \E file \in DeviceFiles :
       probe' = [probe EXCEPT !.op = "get_title", !.file = file,
                              !.exc = RawSensor_get_title(file).exc, !.log = <<>>]

NextSensor ==
    \/ ProbeUpdate /\ UNCHANGED <<objects, controller, config, ramp, sched, iter, settings, asked>>
    \/ ProbeGetValue /\ UNCHANGED <<objects, controller, config, ramp, sched, iter, settings, asked>>
    \/ ProbeGetTitle /\ UNCHANGED <<objects, controller, config, ramp, sched, iter, settings, asked>>

InitSensor ==
    /\ InitObjects
    /\ fc = [running |-> FALSE, scheduler |-> <<>>]
    /\ handler = [interrupted |-> FALSE, released |-> FALSE]
    /\ pc = [at |-> "sensor", i |-> 1, ignore_exceptions |-> FALSE]
    /\ cycle = NoCycle
    /\ ramp = NoRamp
    /\ sched = NoSched
    /\ InitLibrary

SpecSensor == InitSensor /\ [][NextSensor]_vars

(***************************************************************************)
(* SpecIter: a for loop over a freshly constructed PWMIterator: __iter__   *)
(* once, then __next__ until it raises StopIteration.  The iterators are   *)
(* those over a range start..end within 0..IterMax with a step of up to    *)
(* MaxIterStep either way, and the one of test_pwm_iterator.py over        *)
(* PWM_MIN..PWM_MAX by 1.  No loop runs beyond MaxYield values.            *)
(***************************************************************************)

IterMax == 8

MaxIterStep == 3

MaxYield == 300

PWMIterator_PWM_MIN == 0

PWMIterator_PWM_MAX == 255

Iterators ==
    { PWMIterator(start, end, step) :
          start \in 0..IterMax, end \in 0..IterMax,
          step \in (-MaxIterStep..MaxIterStep) \ {0} }
        \cup { PWMIterator(PWMIterator_PWM_MIN, PWMIterator_PWM_MAX, 1) }

IterIter ==
    /\ ~iter.iterating
    /\ iter' = [iter EXCEPT !.self = PWMIterator_iter(@), !.iterating = TRUE]

IterNext ==
    /\ iter.iterating /\ ~iter.stopped
    /\ Len(iter.values) < MaxYield
    /\ LET n == PWMIterator_next(iter.self)
       IN  iter' = [iter EXCEPT !.self = n.self,
                                !.stopped = n.exc = "StopIteration",
                                !.values = IF n.exc = NoExc THEN Append(@, n.ret) ELSE @]

NextIter ==
    \/ IterIter /\ UNCHANGED <<objects, controller, config, ramp, sched, probe, settings, asked>>
    \/ IterNext /\ UNCHANGED <<objects, controller, config, ramp, sched, probe, settings, asked>>

InitIter ==
    /\ InitObjects
    /\ fc = [running |-> FALSE, scheduler |-> <<>>]
    /\ handler = [interrupted |-> FALSE, released |-> FALSE]
    /\ pc = [at |-> "iterator", i |-> 1, ignore_exceptions |-> FALSE]
    /\ cycle = NoCycle
    /\ ramp = NoRamp
    /\ sched = NoSched
    /\ probe = NoSensor /\ settings = NoSettings /\ asked = NoAsked
    /\ \E self \in Iterators :
          /\ self.start <= self.end
          /\ iter = [NoIter EXCEPT !.self = self]

SpecIter == InitIter /\ [][NextIter]_vars

(***************************************************************************)
(* SpecSettings: a Settings object created over a configuration file that  *)
(* holds up to two sections besides 'Settings', and the calls of           *)
(* rename_section and remove_section made on it, with any names.           *)
(***************************************************************************)

\* The section 'Settings' once create_or_read has restored its keys.
DefaultSettings ==
    <<Item("log_level", <<"INFO">>), Item("log_using", <<"CONSOLE">>),
      Item("log_formatter", <<"BASIC">>), Item("delay", <<"10">>),
      Item("error_on_empty", <<"yes">>)>>

\* The names of the sections the file may hold, and what a section may
\* hold: nothing, the keys of a fan, or a key whose value has a percent sign
\* (written "%%" in the file), before or after another key.
FileSections == {"fan1", "fan2"}

SectionItems ==
    { <<>>,
      <<Item("enabled", <<"yes">>), Item("pwm_max", <<"255">>)>>,
      <<Item("enabled", <<"no">>), Item("title", <<"100", "%", "%">>)>>,
      <<Item("title", <<"100", "%", "%">>), Item("enabled", <<"yes">>)>> }

\* The names rename_section and remove_section are called with.
SectionNames == {SETTINGS, "fan1", "fan2", "fan3"}

NewNames == SectionNames \cup {"", DEFAULT_SECTION}

SettingsCalled(cfg, op, section, new_name, exc, ret) ==
    [sections |-> cfg, op |-> op, section |-> section, new_name |-> new_name, key |-> "",
     exc |-> exc, ret |-> ret]

\* The section names, key names and values set() is called with: names
\* that are there, names that are new, and names with a character that is
\* not allowed or with none at all.
SetSections == {SETTINGS, "fan1", "fan3", "secti@n", ""}

SetKeys == {"enabled", "key", "ke@y", "my key", ""}

SetValues == {<<"test">>, <<"yes">>}

\* Settings.set, as the first call on the file that was read.
SettingsSet ==
    /\ settings.op = "none"
    /\ \E section \in SetSections, key \in SetKeys, value \in SetValues :
          LET r == Settings_set(settings.sections, section, key, value)
          IN  settings' = [SettingsCalled(r.config, "set", section, "", r.exc, FALSE)
                              EXCEPT !.key = key]

SettingsRenameSection ==
    \E section \in SectionNames, new_name \in NewNames :
       LET r == rename_section(settings.sections, section, new_name)
       IN  settings' = SettingsCalled(r.config, "rename_section", section, new_name,
                                      r.exc, r.ret)

\* Settings.remove_section: nothing to do when there is no such section.
SettingsRemoveSection ==
    \E section \in SectionNames \ {SETTINGS} :
       settings' = SettingsCalled(IF have_section(settings.sections, section)
                                  THEN remove_section(settings.sections, section)
                                  ELSE settings.sections,
                                  "remove_section", section, "", NoExc, FALSE)

NextSettings ==
    \/ SettingsRenameSection
          /\ UNCHANGED <<objects, controller, config, ramp, sched, probe, iter, asked>>
    \/ SettingsRemoveSection
          /\ UNCHANGED <<objects, controller, config, ramp, sched, probe, iter, asked>>
    \/ SettingsSet
          /\ UNCHANGED <<objects, controller, config, ramp, sched, probe, iter, asked>>

InitSettings ==
    /\ InitObjects
    /\ fc = [running |-> FALSE, scheduler |-> <<>>]
    /\ handler = [interrupted |-> FALSE, released |-> FALSE]
    /\ pc = [at |-> "settings", i |-> 1, ignore_exceptions |-> FALSE]
    /\ cycle = NoCycle
    /\ ramp = NoRamp
    /\ sched = NoSched
    /\ probe = NoSensor /\ iter = NoIter /\ asked = NoAsked
    /\ \E held \in SUBSET FileSections, items \in [FileSections -> SectionItems] :
          settings = [NoSettings EXCEPT
                         !.sections = [s \in held \cup {SETTINGS} |->
                                          IF s = SETTINGS THEN DefaultSettings ELSE items[s]]]

SpecSettings == InitSettings /\ [][NextSettings]_vars

(***************************************************************************)
(* SpecRequests: a list of PWMRequests as an output collects it (fans      *)
(* append to it), and the static methods of PWMRequest called with it.     *)
(* The lists have up to MaxRequests requests; a request asks for a target  *)
(* and may carry a start value.                                            *)
(***************************************************************************)

MaxRequests == 2

AskedRequests ==
    { PWMRequest(requester, target_value, start_value) :
         requester \in {1, 2}, target_value \in {0, 50, 90}, start_value \in {None, 0, 80} }

\* self.requests.append(request)
AskedAppend ==
    /\ Len(asked.requests) < MaxRequests
    /\ \E request \in AskedRequests :
          asked' = [requests |-> Append(asked.requests, request), op |-> "append", ret |-> None]

AskedGetMaxStart ==
    asked' = [asked EXCEPT !.op = "get_max_start", !.ret = get_max_start(asked.requests)]

AskedGetMaxTarget ==
    asked' = [asked EXCEPT !.op = "get_max_target", !.ret = get_max_target(asked.requests)]

NextRequests ==
    \/ AskedAppend
          /\ UNCHANGED <<objects, controller, config, ramp, sched, probe, iter, settings>>
    \/ AskedGetMaxStart
          /\ UNCHANGED <<objects, controller, config, ramp, sched, probe, iter, settings>>
    \/ AskedGetMaxTarget
          /\ UNCHANGED <<objects, controller, config, ramp, sched, probe, iter, settings>>

InitRequests ==
    /\ InitObjects
    /\ fc = [running |-> FALSE, scheduler |-> <<>>]
    /\ handler = [interrupted |-> FALSE, released |-> FALSE]
    /\ pc = [at |-> "requests", i |-> 1, ignore_exceptions |-> FALSE]
    /\ cycle = NoCycle
    /\ ramp = NoRamp
    /\ sched = NoSched
    /\ InitLibrary

SpecRequests == InitRequests /\ [][NextRequests]_vars

(***************************************************************************)
(* Properties of one PWM output (SpecAPI)                                  *)
(***************************************************************************)

\* The transitions of the state machine: STOPPED -> STARTING -> RUNNING ->
\* STOPPING -> STOPPED.
LegalTransitions ==
    { <<STATE_STOPPED, STATE_STARTING>>, <<STATE_STARTING, STATE_RUNNING>>,
      <<STATE_RUNNING, STATE_STOPPING>>, <<STATE_STOPPING, STATE_STOPPED>> }

\* C1: once setup() has set the state of an output, no call of update,
\* request_value, plan_ahead or u_tick (nor the passing of time) changes it
\* other than from STOPPED to STARTING, from STARTING to RUNNING, from RUNNING
\* to STOPPING, or from STOPPING to STOPPED.
C1_OnlyLegalTransitions ==
    [][\A o \in Outputs :
          pwm[o].state # STATE_UNKNOWN /\ pwm'[o].state # pwm[o].state
              => <<pwm[o].state, pwm'[o].state>> \in LegalTransitions]_vars

\* C1 happens: u_tick has just brought an output that was set up, started
\* and ramped down from STOPPING to STOPPED.
C1_Witness ==
    /\ pc.at = "ready"
    /\ call.op = "u_tick" /\ call.ret
    /\ pwm[1].state = STATE_STOPPED
    /\ pwm[1].last_value = 0 /\ hw[1].pwm = 0

\* The writes shutdown() is to attempt on the object self, in order: the
\* control mode it found, the largest pending target, the largest pwm_max
\* of its fans.
Fallbacks(self) ==
    LET targets == { self.requests[i].target_value : i \in 1..Len(self.requests) }
    IN  (IF self.original_enable = None THEN <<>>
         ELSE <<[path |-> "enable", value |-> self.original_enable]>>)
        \o (IF targets = {} THEN <<>>
            ELSE <<[path |-> "pwm", value |-> CHOOSE m \in targets : \A t \in targets : t <= m]>>)
        \o <<[path |-> "pwm",
              value |-> CHOOSE m \in { FanConfig(self.fans[i]).pwm_max : i \in 1..Len(self.fans) } :
                            \A i \in 1..Len(self.fans) : FanConfig(self.fans[i]).pwm_max <= m]>>

\* C3: the writes a call of shutdown() makes are the fallbacks taken in
\* order; none follows a write that succeeded, and whenever a write failed
\* the next fallback is attempted.
C3_FallbacksInOrder ==
    [][\A o \in UnderTest :
          pc.at # "closed" /\ pc'.at = "closed"
              => LET io == call'.io
                     steps == Fallbacks(pwm[o])
                 IN  /\ Len(io) <= Len(steps)
                     /\ \A k \in 1..Len(io) :
                           /\ io[k].path = steps[k].path
                           /\ io[k].value = steps[k].value
                           /\ io[k].ok => k = Len(io)
                           /\ ~io[k].ok /\ k < Len(steps) => k < Len(io)]_vars

\* C4: shutdown() raises nothing, whatever ignore_exceptions is, and returns
\* a boolean.
C4_ShutdownNeverRaises ==
    call.op = "shutdown" => call.exc = NoExc /\ call.ret \in BOOLEAN

\* The largest start value and the largest target value among the requests.
MaxStart(requests) ==
    LET starts == { requests[i].start_value : i \in 1..Len(requests) } \ {None}
    IN  CHOOSE m \in starts : \A x \in starts : x <= m

MaxTarget(requests) ==
    LET targets == { requests[i].target_value : i \in 1..Len(requests) }
    IN  CHOOSE m \in targets : \A x \in targets : x <= m

\* plan_ahead() is called on the STOPPED output o with a start value pending,
\* and returns.
PlansStart(o) ==
    /\ pwm[o].state = STATE_STOPPED
    /\ \E i \in 1..Len(pwm[o].requests) : pwm[o].requests[i].start_value # None
    /\ call'.op = "plan_ahead" /\ call'.on = o /\ call'.exc = NoExc

\* C6 as stated: the value written, and kept as last_value, is the largest
\* start value, and the target is the largest target value.
C6_WritesMaxStart ==
    [][\A o \in UnderTest :
          PlansStart(o)
              => /\ call'.io = <<[path |-> "pwm", value |-> MaxStart(pwm[o].requests), ok |-> TRUE]>>
                 /\ pwm'[o].last_value = MaxStart(pwm[o].requests)
                 /\ pwm'[o].target = MaxTarget(pwm[o].requests)]_vars

\* C6 amended: the value written, and kept as last_value, is the larger of
\* the largest start value and the largest target value; the target is the
\* largest target value; the output is STARTING.
C6_WritesLargest ==
    [][\A o \in UnderTest :
          PlansStart(o)
              => LET start_at == Max(MaxStart(pwm[o].requests), MaxTarget(pwm[o].requests))
                 IN  /\ call'.io = <<[path |-> "pwm", value |-> start_at, ok |-> TRUE]>>
                     /\ hw'[o].pwm = start_at
                     /\ pwm'[o].last_value = start_at
                     /\ pwm'[o].target = MaxTarget(pwm[o].requests)
                     /\ pwm'[o].state = STATE_STARTING
                     /\ pwm'[o].requests = <<>>]_vars

\* C6 happens, both ways: the output was started at 90 towards 90 (the
\* start value 80 was below the target), or at 80 towards 60.
C6_Witness ==
    /\ call.op = "plan_ahead" /\ call.on = 1
    /\ call.io = <<[path |-> "pwm", value |-> 90, ok |-> TRUE]>>
    /\ pwm[1].state = STATE_STARTING /\ pwm[1].last_value = 90 /\ pwm[1].target = 90

C6_WitnessStartAbove ==
    /\ call.op = "plan_ahead" /\ call.on = 1
    /\ call.io = <<[path |-> "pwm", value |-> 80, ok |-> TRUE]>>
    /\ pwm[1].state = STATE_STARTING /\ pwm[1].last_value = 80 /\ pwm[1].target = 60

\* C7: a STARTING output whose fans do not spin when the deadline is polled
\* spends one unit of a budget that never exceeds 4 after the scheduler was
\* armed, and is RUNNING after the poll that finds the budget spent: the
\* fifth such poll at the latest.
C7_StartingGivesUp ==
    [][\A o \in UnderTest :
          /\ pwm'[o].state = STATE_STARTING /\ pwm'[o].scheduler # <<>>
                 => pwm'[o].scheduler[1].count \in 0..4
          /\ ( /\ pwm[o].state = STATE_STARTING /\ pwm[o].scheduler # <<>>
               /\ was_passed(pwm[o].scheduler[1], time).ret
               /\ call'.op = "u_tick" /\ pc.at = "ready" /\ pc'.at = "ready" )
                 => \/ pwm'[o].state = STATE_RUNNING
                    \/ /\ pwm'[o].state = STATE_STARTING
                       /\ pwm[o].scheduler[1].count > 0
                       /\ pwm'[o].scheduler[1].count = pwm[o].scheduler[1].count - 1]_vars

\* C7 happens: u_tick has just given up on the fans and set the output
\* RUNNING.
C7_Witness ==
    /\ call.op = "u_tick" /\ call.on = 1
    /\ "ERROR" \in { call.log[i] : i \in 1..Len(call.log) }
    /\ pwm[1].state = STATE_RUNNING /\ pwm[1].scheduler = <<>>

\* C22: a call of request_value() (Fan.update and Fan.shutdown make one per
\* fan) raises nothing, writes nothing to the device and changes nothing of
\* the output but its list of pending requests, which keeps the requests it
\* held, in order, and grows; and when plan_ahead() then plans (from STOPPED
\* with a start value pending, or from RUNNING), the target it sets is the
\* largest target among all the requests pending.
C22_RequestOnlyAppends ==
    [][\A o \in UnderTest :
          /\ (call'.op = "request_value" /\ call'.on = o)
                => /\ call'.exc = NoExc /\ call'.io = <<>>
                   /\ hw' = hw
                   /\ pwm'[o] = [pwm[o] EXCEPT !.requests = pwm'[o].requests]
                   /\ Len(pwm'[o].requests) > Len(pwm[o].requests)
                   /\ SubSeq(pwm'[o].requests, 1, Len(pwm[o].requests)) = pwm[o].requests
                   /\ (pc.at \in {"created", "ready"} /\ pc'.at = pc.at)
                         => Len(pwm'[o].requests) = Len(pwm[o].requests) + 1
          /\ (/\ call'.op = "plan_ahead" /\ call'.on = o /\ call'.exc = NoExc
              /\ pwm[o].requests # <<>>
              /\ \/ pwm[o].state = STATE_RUNNING
                 \/ pwm[o].state = STATE_STOPPED /\ pwm'[o].state = STATE_STARTING)
                => pwm'[o].target = MaxTarget(pwm[o].requests)]_vars

\* C22 happens: a second request was submitted to an output that is
\* STARTING and waits on its scheduler; and plan_ahead() has set the target
\* of a RUNNING output from two requests.
C22_Witness ==
    /\ call.op = "request_value" /\ call.on = 1
    /\ Len(pwm[1].requests) = 2
    /\ pwm[1].state = STATE_STARTING /\ pwm[1].scheduler # <<>>
    /\ pwm[1].last_value = 90 /\ pwm[1].target = 90 /\ hw[1].pwm = 90

\* C12: when update() or plan_ahead() has been called on an output, in
\* whatever state, no request is pending on it.
C12_RequestsCleared ==
    \A o \in UnderTest :
       call.op \in {"update", "plan_ahead"} /\ call.on = o => pwm[o].requests = <<>>

\* C26: update() called on an output that holds requests raises nothing,
\* logs one warning for each of them, and leaves no request pending.
C26_UpdateDropsLeftovers ==
    [][\A o \in UnderTest :
          (call'.op = "update" /\ call'.on = o /\ pwm[o].requests # <<>>)
              => /\ call'.exc = NoExc
                 /\ Len(SelectSeq(call'.log, LAMBDA entry : entry = "WARNING"))
                       = Len(pwm[o].requests)
                 /\ pwm'[o].requests = <<>>]_vars

\* plan_ahead() is called on the STOPPED output o.
PlansFromStopped(o) ==
    pwm[o].state = STATE_STOPPED /\ call'.op = "plan_ahead" /\ call'.on = o

\* plan_ahead() leaves the output o STOPPED, with its last_value and target,
\* and writes nothing.
StaysStopped(o) ==
    /\ pwm'[o].state = STATE_STOPPED
    /\ call'.io = <<>> /\ hw'[o] = hw[o]
    /\ pwm'[o].last_value = pwm[o].last_value /\ pwm'[o].target = pwm[o].target

\* C28 as stated: plan_ahead() in STOPPED moves the output to STARTING
\* exactly when a pending request carries a start value other than 0 and
\* the write succeeds; with no such request the output stays STOPPED,
\* nothing is written, and last_value and target are unchanged.
C28_StartsOnNonzeroStart ==
    [][\A o \in UnderTest :
          PlansFromStopped(o)
              => LET starting == \E i \in 1..Len(pwm[o].requests) :
                                    pwm[o].requests[i].start_value \notin {None, 0}
                 IN  /\ pwm'[o].state = STATE_STARTING <=> starting /\ call'.exc = NoExc
                     /\ ~starting => StaysStopped(o)]_vars

\* C28 amended: plan_ahead() in STOPPED moves the output to STARTING
\* exactly when a pending request carries a start value, whatever it is (0
\* too), and the write succeeds; with no start value pending the output
\* stays STOPPED, nothing is written, and last_value and target are
\* unchanged, whatever targets were requested; and a start whose write
\* fails leaves the output STOPPED.
C28_StartsOnAnyStart ==
    [][\A o \in UnderTest :
          PlansFromStopped(o)
              => LET starting == \E i \in 1..Len(pwm[o].requests) :
                                    pwm[o].requests[i].start_value # None
                 IN  /\ pwm'[o].state = STATE_STARTING <=> starting /\ call'.exc = NoExc
                     /\ ~starting => StaysStopped(o) /\ call'.exc = NoExc
                     /\ pwm'[o].state \in {STATE_STOPPED, STATE_STARTING}]_vars

\* C28 happens: the output was started at 50 towards 50, which only the
\* request of a target of 50 with the start value 0 asks for.
C28_Witness ==
    /\ call.op = "plan_ahead" /\ call.on = 1
    /\ call.io = <<[path |-> "pwm", value |-> 50, ok |-> TRUE]>>
    /\ pwm[1].state = STATE_STARTING /\ pwm[1].last_value = 50 /\ pwm[1].target = 50

\* C29: plan_ahead() on a RUNNING output sets last_value to the duty cycle
\* the latest update() read, sets target to the largest target_value
\* pending (whatever the start values), or leaves it when nothing is
\* pending, writes nothing, and leaves the output STOPPING when the target
\* is then 0 and RUNNING otherwise.
C29_PlanFromRunning ==
    [][\A o \in UnderTest :
          (pwm[o].state = STATE_RUNNING /\ call'.op = "plan_ahead" /\ call'.on = o)
              => /\ call'.exc = NoExc
                 /\ pwm'[o].last_value = pwm[o].value
                 /\ pwm'[o].target = IF pwm[o].requests # <<>>
                                     THEN MaxTarget(pwm[o].requests) ELSE pwm[o].target
                 /\ call'.io = <<>> /\ hw'[o] = hw[o]
                 /\ pwm'[o].state = IF pwm'[o].target = 0 THEN STATE_STOPPING
                                    ELSE STATE_RUNNING]_vars

\* C29 happens: plan_ahead() has found the request to stop and left the
\* output STOPPING at the duty cycle it runs at; or it has taken the target
\* 60 from a request that also carried the start value 80.
C29_Witness ==
    /\ call.op = "plan_ahead" /\ call.on = 1 /\ call.io = <<>>
    /\ pwm[1].state = STATE_STOPPING /\ pwm[1].target = 0
    /\ pwm[1].last_value = 90 /\ hw[1].pwm = 90

C29_WitnessStartIgnored ==
    /\ call.op = "plan_ahead" /\ call.on = 1 /\ call.io = <<>>
    /\ pwm[1].state = STATE_RUNNING /\ pwm[1].target = 60
    /\ pwm[1].last_value = 50 /\ hw[1].pwm = 50

\* C30: plan_ahead() on an output that is STARTING, STOPPING or UNKNOWN
\* logs an error, returns False and raises nothing, writes nothing, and
\* leaves the output as it was: its state, last_value, target and scheduler
\* (and its pending requests).
C30_DeclinesToPlan ==
    [][\A o \in UnderTest :
          (/\ pwm[o].state \in {STATE_STARTING, STATE_STOPPING, STATE_UNKNOWN}
           /\ call'.op = "plan_ahead" /\ call'.on = o)
              => /\ call'.exc = NoExc /\ ~call'.ret
                 /\ call'.log = <<"ERROR">>
                 /\ call'.io = <<>> /\ hw' = hw
                 /\ pwm'[o] = pwm[o]]_vars

\* C30 happens: plan_ahead() has declined on an output that is STOPPING,
\* half way down its ramp, with its scheduler armed and a request pending.
C30_Witness ==
    /\ call.op = "plan_ahead" /\ call.on = 1 /\ call.log = <<"ERROR">>
    /\ pwm[1].state = STATE_STOPPING /\ pwm[1].scheduler # <<>>
    /\ pwm[1].target = 0 /\ pwm[1].last_value \in 1..49
    /\ pwm[1].requests # <<>>

\* ... and on an output that was never set up.
C30_WitnessUnknown ==
    /\ call.op = "plan_ahead" /\ call.on = 1 /\ call.log = <<"ERROR">>
    /\ pwm[1].state = STATE_UNKNOWN /\ pwm[1].requests # <<>>

(***************************************************************************)
(* Properties of control() (Spec)                                          *)
(***************************************************************************)

\* __shutdown has called shutdown() on every fan and then on every output.
FansThenOutputs ==
    [i \in 1..Len(fans) |-> [kind |-> "fan", id |-> fans[i]]]
        \o [i \in 1..Len(outputs) |-> [kind |-> "pwm", id |-> outputs[i]]]

\* C2: when plan_ahead() or u_tick() raises ControlRuntimeError, control()
\* does not end before every fan and then every output was shut down.
C2_ErrorRunsShutdown ==
    ( /\ pc.at \in {"done", "crashed"}
      /\ call.op \in {"plan_ahead", "u_tick"}
      /\ call.exc = "ControlRuntimeError" )
        => cycle.closed = FansThenOutputs

\* C5: when control() is done, its shutdown has called shutdown() on every
\* fan and then on every output, whether or not one of them raised.
C5_ShutdownReachesAll ==
    pc.at = "done" => cycle.closed = FansThenOutputs

\* The requests pending on output o are those of the fans that submitted in
\* this cycle, one each.
OnlyThisCycle(o) ==
    /\ \A i \in 1..Len(pwm[o].requests) : pwm[o].requests[i].requester \in cycle.requested
    /\ Len(pwm[o].requests) = Cardinality({ f \in cycle.requested : FanConfig(f).device = o })

\* C9: in a control cycle every sensor is updated (and no request of an
\* earlier cycle is left) before a fan computes, every fan has submitted
\* before an output plans, each output plans once, in order, and ticks are
\* made only after that; the next cycle begins only when the deadline of
\* this one has passed.
C9_CycleOrder ==
    /\ pc.at = "update_fans"
          => /\ cycle.updated = { sensors[i] : i \in 1..Len(sensors) }
             /\ cycle.requested = { fans[i] : i \in 1..(pc.i - 1) }
             /\ \A o \in Outputs : OnlyThisCycle(o)
    /\ pc.at = "plan"
          => /\ cycle.requested = Fans
             /\ cycle.planned = SubSeq(outputs, 1, pc.i - 1)
             /\ ~cycle.ticked
    /\ pc.at \in {"wait", "check", "sleep", "u_tick"} => cycle.planned = outputs
    /\ cycle.ticked => cycle.planned = outputs
    /\ pc.at = "set_next" /\ fc.scheduler[1].next_set
          => was_passed(fc.scheduler[1], time).ret

\* C9 happens: a cycle has updated, computed, planned and then ticked, and
\* its deadline has passed.
C9_Witness ==
    /\ pc.at = "set_next"
    /\ cycle.updated = { sensors[i] : i \in 1..Len(sensors) }
    /\ cycle.requested = Fans
    /\ cycle.planned = outputs
    /\ cycle.ticked
    /\ call.op = "u_tick" /\ call.on = outputs[Len(outputs)]
    /\ was_passed(fc.scheduler[1], time).ret

\* C10: once the handler has set the stop flag, the cycle loop begins no
\* further control cycle.
C10_NoCycleOnceInterrupted ==
    [][handler.interrupted /\ pc.at = "loop" => pc'.at # "set_next"]_vars

C21_SetupResult ==
    [][\A o \in Outputs :
          pc.at = "setup_pwm" /\ outputs[pc.i] = o
          /\ call'.op = "setup" /\ call'.on = o /\ call'.exc = NoExc
              => /\ pwm'[o].state =
                        IF \E f \in Fans : FanConfig(f).device = o /\ fan_value[f] > 0
                        THEN STATE_RUNNING ELSE STATE_STOPPED
                 /\ pwm'[o].last_value = hw[o].pwm /\ pwm'[o].target = hw[o].pwm
                 /\ pwm'[o].last_value = pwm[o].value
                 /\ pwm'[o].original_enable = hw[o].enable
                 /\ call'.io = <<[path |-> "enable", value |-> PWM_ENABLE_MANUAL, ok |-> TRUE]>>
                 /\ hw'[o] = [hw[o] EXCEPT !.enable = PWM_ENABLE_MANUAL]
                 /\ pwm'[o].requests = <<>>]_vars

\* C21 happens: the setup phase is over, the first output was found
\* running at the duty cycle the chipset left and the second one at rest.
C21_Witness ==
    /\ pc.at = "loop" /\ call.op = "setup" /\ call.exc = NoExc
    /\ pwm[1].state = STATE_RUNNING /\ pwm[2].state = STATE_STOPPED
    /\ \A o \in Outputs :
          /\ pwm[o].last_value = 50 /\ pwm[o].target = 50
          /\ pwm[o].original_enable = 2 /\ hw[o].enable = PWM_ENABLE_MANUAL

\* C27: whenever a control cycle is about to update an output, no request
\* is pending on it: those of the cycle before were consumed by its
\* plan_ahead().
C27_NoLeftoverAtUpdate ==
    pc.at = "update_sensors" /\ sensors[pc.i].kind = "pwm"
        => pwm[sensors[pc.i].id].requests = <<>>

(***************************************************************************)
(* Properties of control() under any accepted section (SpecSections)       *)
(***************************************************************************)

\* The duty cycles a device takes.
DutyCycles == PWM_MIN..PWM_MAX

\* C11: once setup() has been called on an output, its last_value and its
\* target are duty cycles (0..255), and so is every value that plan_ahead()
\* or u_tick() writes to the device, whatever section load_configuration
\* accepted for the fan.
C11_DutyInRange ==
    /\ \A o \in Outputs :
          pwm[o].state # STATE_UNKNOWN
              => pwm[o].last_value \in DutyCycles /\ pwm[o].target \in DutyCycles
    /\ call.op \in {"plan_ahead", "u_tick"}
          => \A k \in 1..Len(call.io) :
                call.io[k].path = "pwm" /\ call.io[k].ok => call.io[k].value \in DutyCycles

(***************************************************************************)
(* Properties of Fan.__calculate (SpecCalc)                                *)
(***************************************************************************)

\* The temperatures the mapping is compared at: every half degree from 10
\* to 70 degrees, and the readings.
TempGrid == { 500 * d : d \in 20..140 } \cup CalcTemps

\* The target __calculate gives fan f at temperature t, its fan spinning.
TargetAt(f, t) == calculate(f, t, 1200).ret.target_value

\* The request the studied fan has submitted.
Submitted == pwm[FanConfig(Studied).device].requests[1]

\* C13: for a fan with pwm_min <= pwm_stop < pwm_max and
\* sensor_min < sensor_max, the target is pwm_min at and below sensor_min,
\* pwm_max at and above sensor_max, never outside pwm_min..pwm_max, and
\* never lower at a higher temperature; the request the fan submits carries
\* that target.
C13_TargetWithinBounds ==
    LET cfg == FanConfig(Studied)
    IN  ( /\ cfg.pwm_min <= cfg.pwm_stop /\ cfg.pwm_stop < cfg.pwm_max
          /\ cfg.sensor_min < cfg.sensor_max )
          => /\ \A t \in TempGrid :
                   /\ t <= cfg.sensor_min * TEMP_DIV => TargetAt(Studied, t) = cfg.pwm_min
                   /\ t >= cfg.sensor_max * TEMP_DIV => TargetAt(Studied, t) = cfg.pwm_max
                   /\ cfg.pwm_min <= TargetAt(Studied, t)
                   /\ TargetAt(Studied, t) <= cfg.pwm_max
             /\ \A t1, t2 \in TempGrid :
                   t1 <= t2 => TargetAt(Studied, t1) <= TargetAt(Studied, t2)
             /\ Pending(cfg.device, Studied)
                   => /\ Submitted.target_value = TargetAt(Studied, temp_value)
                      /\ Submitted.target_value \in cfg.pwm_min..cfg.pwm_max

\* C13 happens: the fan has submitted a target strictly between pwm_min and
\* pwm_max, for a temperature strictly between sensor_min and sensor_max.
C13_Witness ==
    /\ Pending(FanConfig(Studied).device, Studied)
    /\ FanConfig(Studied) = WholeRange
    /\ temp_value = 30500
    /\ Submitted.target_value = 67

\* The fan maps 20..60 degrees onto 0..255 (pwm_start 100, pwm_stop 40),
\* reads 40 degrees and a tachometer at 0, and has submitted its request.
HalfWay ==
    /\ FanConfig(Studied) = WholeRange
    /\ temp_value = 40000 /\ fan_value[Studied] = 0
    /\ Pending(FanConfig(Studied).device, Studied)

\* C14 as stated: at 40 degrees the fan requests the target 127 and, its
\* tachometer reading 0, the start value 100.
C14_TargetIs127 ==
    HalfWay => Submitted.target_value = 127 /\ Submitted.start_value = 100

\* C14 amended: at 40 degrees the fan requests the target 128, which is
\* what round() makes of 127.5, and, its tachometer reading 0, the start
\* value 100.
C14_TargetIs128 ==
    HalfWay => /\ Submitted.target_value = 128
               /\ Submitted.target_value = Round(2 * 127 + 1, 2)
               /\ Submitted.start_value = 100

\* C14 happens: the request of the fan at 40 degrees is pending.
C14_Witness ==
    /\ HalfWay
    /\ call.op = "request_value" /\ call.exc = NoExc
    /\ Len(pwm[FanConfig(Studied).device].requests) = 1

\* C31: the request a fan has submitted carries the computed target, and
\* carries the fan's pwm_start as its start value when that target is above
\* pwm_stop and the cached tachometer value is 0; in every other case it
\* carries no start value.
C31_StartValueWhenStalled ==
    LET cfg == FanConfig(Studied)
    IN  Pending(cfg.device, Studied)
            => /\ Submitted.target_value = TargetAt(Studied, temp_value)
               /\ Submitted.start_value =
                     IF Submitted.target_value > cfg.pwm_stop /\ fan_value[Studied] = 0
                     THEN cfg.pwm_start ELSE None

\* C31 happens: at 30.5 degrees the fan asks for 67, above its pwm_stop of
\* 40, and for a start at 100, its tachometer reading 0.
C31_Witness ==
    /\ FanConfig(Studied) = WholeRange
    /\ temp_value = 30500 /\ fan_value[Studied] = 0
    /\ Pending(FanConfig(Studied).device, Studied)
    /\ Submitted.target_value = 67 /\ Submitted.start_value = 100

\* ... and at 20 degrees it asks for 0 and for no start, though its
\* tachometer reads 0.
C31_WitnessAtRest ==
    /\ FanConfig(Studied) = WholeRange
    /\ temp_value = 20000 /\ fan_value[Studied] = 0
    /\ Pending(FanConfig(Studied).device, Studied)
    /\ Submitted.target_value = 0 /\ Submitted.start_value = None

(***************************************************************************)
(* Properties of the MicroScheduler (SpecSched)                            *)
(***************************************************************************)

\* C15: a was_passed(now) made when set_next has not been called since the
\* scheduler was constructed or last cleared raises NotScheduledException,
\* whatever now is, and returns nothing.
C15_NotScheduledRaises ==
    sched.op = "was_passed" /\ ~sched.armed
        => /\ sched.exc = "NotScheduledException"
           /\ \A now \in Clock : was_passed(sched.self, now).exc = "NotScheduledException"

\* C15 happens: set_next was called, then clear, and the was_passed that
\* followed raised.
C15_Witness ==
    /\ sched.op = "was_passed" /\ ~sched.armed
    /\ sched.granted > 0 /\ sched.now > 0
    /\ sched.exc = "NotScheduledException"

\* C16: with a limit N, a call of set_next succeeds exactly when fewer than
\* N calls have succeeded since the limit was set, and raises
\* SchedulerLimitExceeded otherwise; was_passed and clear leave the budget as
\* it is; without a limit set_next never raises.
C16_LimitGrants ==
    [][LET s == sched.self
       IN  /\ sched'.op = "set_next"
                 => IF s.limit = None \/ sched.granted < s.limit
                    THEN sched'.exc = NoExc /\ sched'.granted = sched.granted + 1
                    ELSE sched'.exc = "SchedulerLimitExceeded" /\ sched'.granted = sched.granted
           /\ sched'.op \in {"was_passed", "clear"}
                 => sched'.self.count = s.count /\ sched'.self.limit = s.limit
           /\ sched'.self.limit # None
                 => sched'.self.count = sched'.self.limit - sched'.granted]_vars

\* C16 happens: with limit 2, two calls succeeded, the scheduler was cleared,
\* and the third call raised.
C16_Witness ==
    /\ sched.op = "set_next" /\ sched.exc = "SchedulerLimitExceeded"
    /\ sched.self.limit = 2 /\ sched.granted = 2
    /\ ~sched.self.next_set

\* C17: a set_next that raises SchedulerLimitExceeded leaves last_updated,
\* trigger_at, next_set and the budget as they were, and was_passed answers
\* after it as it did before.
C17_FailedSetNextChangesNothing ==
    [][sched'.op = "set_next" /\ sched'.exc = "SchedulerLimitExceeded"
          => /\ sched'.self = sched.self
             /\ \A now \in Clock : was_passed(sched'.self, now) = was_passed(sched.self, now)]_vars

\* C17 happens: set_next raised at a time past the deadline that had been
\* set, which is still the deadline.
C17_Witness ==
    /\ sched.op = "set_next" /\ sched.exc = "SchedulerLimitExceeded"
    /\ sched.self.next_set
    /\ sched.now > sched.self.trigger_at
    /\ sched.self.trigger_at = sched.self.last_updated + sched.self.step_delay

\* C18: after set_next(t0), was_passed(now) with t0 <= now <= t0 + 2 *
\* step_delay answers whether now > t0 + step_delay, and no was_passed
\* changes the scheduler.
C18_PassedAfterDeadline ==
    [][sched'.op = "was_passed"
          => /\ sched'.self = sched.self
             /\ LET s == sched.self
                     t0 == s.last_updated
                 IN  ( /\ s.next_set
                       /\ t0 <= sched'.now /\ sched'.now <= t0 + 2 * s.step_delay )
                       => /\ sched'.exc = NoExc
                          /\ sched'.ret = (sched'.now > t0 + s.step_delay)
                          /\ was_passed(s, t0 + s.step_delay).ret = FALSE
                          /\ was_passed(s, t0 + s.step_delay \div 2).ret = FALSE
                          /\ was_passed(s, t0 + s.step_delay + 1).ret = TRUE]_vars

\* C18 happens: was_passed was asked at the deadline itself, and said no.
C18_Witness ==
    /\ sched.op = "was_passed" /\ sched.self.next_set
    /\ sched.now = sched.self.trigger_at
    /\ sched.exc = NoExc /\ ~sched.ret

\* C19: after set_next(t0), was_passed(now) with now < t0 or with
\* now - t0 > 2 * step_delay returns true and logs a warning.
C19_DegenerateClockPasses ==
    LET s == sched.self
    IN  ( /\ sched.op = "was_passed" /\ s.next_set
          /\ (sched.now < s.last_updated \/ sched.now - s.last_updated > 2 * s.step_delay) )
          => sched.exc = NoExc /\ sched.ret /\ sched.log = <<"WARNING">>

\* C19 happens: the clock read less than when the deadline was set, the
\* deadline itself not reached.
C19_Witness ==
    /\ sched.op = "was_passed" /\ sched.self.next_set
    /\ sched.now < sched.self.last_updated
    /\ sched.ret /\ sched.log = <<"WARNING">>

(***************************************************************************)
(* Properties of a Sensor (SpecSensor)                                     *)
(***************************************************************************)

\* C23: when the read of the device file fails during update(), in whatever
\* way, update() raises nothing, logs the failure as an error and leaves the
\* cached value as it was; and no call other than update() changes the
\* cached value.
C23_FailedReadKeepsValue ==
    [][/\ (probe'.op = "update" /\ probe'.file.kind # "data")
            => /\ probe'.exc = NoExc
               /\ probe'.log = <<"ERROR">>
               /\ probe'.value = probe.value
       /\ probe'.op # "update" => probe'.value = probe.value]_vars

(***************************************************************************)
(* Properties of the stepping rule (SpecRamp)                              *)
(***************************************************************************)

\* The number of steps of size step that cover the distance: its ceiling.
StepsFor(distance, step) == (distance + step - 1) \div step

\* C8: every step of a ramp lands between the value before it and the
\* target, inclusive, and strictly closer to the target unless it was there;
\* the ramp is at the target after ceil(|from - target| / pwm_steps) steps
\* and not before, and stays there.
C8_SteppingRule ==
    LET distance == Abs(ramp.from - ramp.target)
        needed == StepsFor(distance, ramp.pwm_steps)
        next == next_step_value(ramp.last_value, ramp.target, ramp.pwm_steps)
    IN  /\ Min(ramp.last_value, ramp.target) <= next
        /\ next <= Max(ramp.last_value, ramp.target)
        /\ ramp.last_value # ramp.target
              => Abs(next - ramp.target) < Abs(ramp.last_value - ramp.target)
        /\ ramp.last_value = ramp.target => next = ramp.target
        /\ Min(ramp.from, ramp.target) <= ramp.last_value
        /\ ramp.last_value <= Max(ramp.from, ramp.target)
        /\ Abs(ramp.last_value - ramp.target) = Max(0, distance - ramp.steps * ramp.pwm_steps)
        /\ ramp.steps >= needed <=> ramp.last_value = ramp.target

\* C8 happens: a ramp whose distance is no multiple of the step has arrived
\* with a last, shorter step, and has been stepped again since.
C8_Witness ==
    /\ ramp.from = 0 /\ ramp.target = 12 /\ ramp.pwm_steps = 5
    /\ ramp.steps = 4 /\ ramp.last_value = 12

(***************************************************************************)
(* Properties of Settings (SpecSettings)                                   *)
(***************************************************************************)

\* C25: rename_section(section, new_name) raises ControlRuntimeError and
\* changes no section when new_name is empty, when section or new_name is
\* 'Settings', when section does not exist or when new_name exists; in every
\* other case it raises nothing, the old section is gone, new_name holds the
\* items the old section held, and every other section is as it was.
C25_RenameSection ==
    [][settings'.op = "rename_section"
          => LET section == settings'.section
                 new_name == settings'.new_name
                 before == settings.sections
                 after == settings'.sections
             IN  IF \/ new_name = ""
                    \/ section = SETTINGS \/ new_name = SETTINGS
                    \/ section \notin DOMAIN before
                    \/ new_name \in DOMAIN before
                 THEN settings'.exc = "ControlRuntimeError" /\ after = before
                 ELSE /\ settings'.exc = NoExc
                      /\ DOMAIN after = (DOMAIN before \ {section}) \cup {new_name}
                      /\ after[new_name] = before[section]
                      /\ \A s \in DOMAIN before \ {section} : after[s] = before[s]]_vars

(***************************************************************************)
(* Properties of the PWMIterator (SpecIter)                                *)
(***************************************************************************)

\* C24: the values a loop over PWMIterator(start, end, step) has yielded,
\* with start <= end and a step other than 0, begin with start (step > 0)
\* or end (step < 0), lie in start..end, and rise (step > 0) or fall
\* (step < 0) by the size of the step, but for a shorter step onto the last
\* value; the loop yields at most one value more than the steps the range
\* takes, and when it has ended the last value is end (step > 0) or start
\* (step < 0) and the values are that many; for PWMIterator(0, 255, 1) they
\* are 256.
C24_IteratorYields ==
    LET self == iter.self
        values == iter.values
        n == Len(values)
        up == self.step > 0
        far == IF up THEN self.end ELSE self.start
        most == StepsFor(self.end - self.start, Abs(self.step)) + 1
    IN  /\ n > 0 => values[1] = IF up THEN self.start ELSE self.end
        /\ \A i \in 1..n : self.start <= values[i] /\ values[i] <= self.end
        /\ \A i \in 1..(n - 1) :
              /\ IF up THEN values[i + 1] > values[i] ELSE values[i + 1] < values[i]
              /\ \/ values[i + 1] = values[i] + self.step
                 \/ /\ values[i + 1] = far
                    /\ Abs(values[i + 1] - values[i]) < Abs(self.step)
        /\ n <= most
        /\ iter.stopped => n = most /\ values[n] = far
        /\ iter.stopped /\ self.start = 0 /\ self.end = 255 /\ self.step = 1 => n = 256

\* C37: u_tick() on an output that is STOPPED or in the state it is created
\* in (UNKNOWN) writes nothing, creates no scheduler and leaves every field
\* of the output, the pending requests among them, as it was.
C37_TickAtRest ==
    [][\A o \in UnderTest :
          ( /\ call'.op = "u_tick" /\ call'.on = o
            /\ pwm[o].state \in {STATE_STOPPED, STATE_UNKNOWN} )
              => /\ call'.io = <<>> /\ call'.exc = NoExc /\ hw' = hw
                 /\ pwm[o].scheduler = <<>>
                 /\ pwm' = pwm]_vars

\* C37 happens: u_tick() was called on a STOPPED output with a request to
\* start pending.
C37_Witness ==
    /\ call.op = "u_tick" /\ call.on = 1
    /\ pwm[1].state = STATE_STOPPED /\ pwm[1].requests = <<PWMRequest(2, 90, 80)>>

\* C37 happens: u_tick() was called on an output before its setup().
C37_WitnessUnknown ==
    /\ call.op = "u_tick" /\ call.on = 1
    /\ pwm[1].state = STATE_UNKNOWN /\ Len(pwm[1].requests) = 1

\* C36: when setup() succeeded (it read the chipset's enable mode and put
\* the output under manual control) and the enable write of shutdown()
\* succeeds, shutdown() writes that enable mode and nothing else, returns
\* True and leaves no request pending, in whichever state the output is.
C36_ShutdownRestores ==
    [][\A o \in UnderTest :
          ( /\ call'.op = "shutdown" /\ call'.on = o
            /\ pwm[o].original_enable # None /\ hw[o].enable = PWM_ENABLE_MANUAL
            /\ Len(call'.io) > 0 /\ call'.io[1].ok )
              => /\ pwm[o].original_enable \in InitialEnable
                 /\ call'.io = <<[path |-> "enable", value |-> pwm[o].original_enable,
                                  ok |-> TRUE]>>
                 /\ call'.exc = NoExc /\ call'.ret = TRUE
                 /\ hw'[o].enable = pwm[o].original_enable /\ hw'[o].pwm = hw[o].pwm
                 /\ pwm'[o].requests = <<>>
                 /\ pwm'[o].state = pwm[o].state]_vars

\* The output was shut down in state s with its fans' shutdown requests
\* pending: the enable mode is back, the duty cycle is what it was.
ShutDownIn(s) ==
    /\ call.op = "shutdown" /\ call.on = 1 /\ call.ret = TRUE
    /\ call.io = <<[path |-> "enable", value |-> 2, ok |-> TRUE]>>
    /\ pwm[1].state = s /\ pwm[1].requests = <<>> /\ hw[1].enable = 2

\* C36 happens: shutdown() of an output that is STOPPING, on its way down
\* from 50 with 30 written.
C36_Witness == ShutDownIn(STATE_STOPPING) /\ hw[1].pwm = 30

C36_WitnessStopped == ShutDownIn(STATE_STOPPED)

C36_WitnessStarting == ShutDownIn(STATE_STARTING)

C36_WitnessRunning == ShutDownIn(STATE_RUNNING)

(***************************************************************************)
(* Properties of an output that stops (SpecStopping)                       *)
(***************************************************************************)

\* What a u_tick() of an output in STOPPING does, from the fields s before
\* the call to the fields t after it, the device holding duty after it.
StoppingTick(s, t, before, duty) ==
    LET left == Abs(s.last_value - s.target)
        kept == /\ t.state = s.state /\ t.last_value = s.last_value
                /\ t.target = s.target /\ duty = before
    IN  IF s.scheduler = <<>>
        THEN kept /\ t.scheduler # <<>> /\ ~was_passed(t.scheduler[1], time).ret
        ELSE IF ~was_passed(s.scheduler[1], time).ret
        THEN t = s /\ duty = before
        ELSE IF s.last_value = s.target
        THEN /\ t.state = STATE_STOPPED
             /\ t.last_value = s.last_value /\ t.target = s.target /\ duty = before
        ELSE /\ t.state = STATE_STOPPING /\ t.target = s.target
             /\ Abs(t.last_value - s.target) = left - Min(20, left)
             /\ Min(s.last_value, s.target) <= t.last_value
             /\ t.last_value <= Max(s.last_value, s.target)
             /\ duty = t.last_value
             /\ t.scheduler # <<>> /\ ~was_passed(t.scheduler[1], time).ret

\* C32: an output in STOPPING reaches STOPPED when u_tick() keeps being
\* called, time advances and writes succeed; at each deadline u_tick()
\* moves it to STOPPED if last_value is the target, and otherwise writes a
\* value one step of 20 closer to the target, never past it, and re-arms;
\* before a deadline passes u_tick() changes nothing (its first call arms
\* the scheduler).
C32_StoppingEnds ==
    /\ [][\A o \in UnderTest :
             call'.op = "u_tick" /\ pwm[o].state = STATE_STOPPING
                 => StoppingTick(pwm[o], pwm'[o], hw[o].pwm, hw'[o].pwm)]_vars
    /\ \A o \in UnderTest : (pwm[o].state = STATE_STOPPING) ~> (pwm[o].state = STATE_STOPPED)

\* C32 happens: a u_tick() has just written 10, the step from 30 on the way
\* from 50 down to 0; the last step will be a shorter one.
C32_Witness ==
    /\ pwm[1].state = STATE_STOPPING /\ pwm[1].target = 0
    /\ call.op = "u_tick" /\ Len(call.io) = 1 /\ call.io[1].value = 10
    /\ pwm[1].last_value = 10 /\ hw[1].pwm = 10

\* C32 happens: the output stopped at a deadline, the device holding 0.
C32_WitnessStopped ==
    /\ pwm[1].state = STATE_STOPPED /\ pwm[1].last_value = 0 /\ pwm[1].target = 0
    /\ call.op = "u_tick" /\ call.io = <<>> /\ hw[1].pwm = 0

(***************************************************************************)
(* Properties of the end of a stop (SpecAPI, Spec)                         *)
(***************************************************************************)

\* The output o enters STOPPED from STOPPING in the step.
Stops(o) == pwm[o].state = STATE_STOPPING /\ pwm'[o].state = STATE_STOPPED

\* C33 (as stated): an output in STOPPING has target 0, and it enters
\* STOPPED from STOPPING only with last_value = target = 0 and the device
\* holding the duty cycle 0.
C33_StopsAtZero ==
    [][\A o \in Outputs :
          /\ pwm'[o].state = STATE_STOPPING => pwm'[o].target = 0
          /\ Stops(o) => /\ pwm'[o].last_value = 0 /\ pwm'[o].target = 0
                         /\ hw'[o].pwm = 0]_vars

\* C33 (what the code keeps): an output in STOPPING has target 0, and it
\* enters STOPPED from STOPPING only with last_value = target = 0, by a
\* u_tick() that writes nothing.
C33_StopsAtTarget ==
    [][\A o \in Outputs :
          /\ pwm'[o].state = STATE_STOPPING => pwm'[o].target = 0
          /\ Stops(o) => /\ pwm'[o].last_value = 0 /\ pwm'[o].target = 0
                         /\ call'.op = "u_tick" /\ call'.io = <<>>
                         /\ hw'[o] = hw[o]]_vars

\* C33 happens: the output stopped from STOPPING, the device holding 0.
C33_Witness ==
    \E o \in Outputs :
        /\ pwm[o].state = STATE_STOPPED /\ call.op = "u_tick" /\ call.on = o /\ call.ret = TRUE
        /\ pwm[o].last_value = 0 /\ pwm[o].target = 0 /\ hw[o].pwm = 0

\* The output stopped from STOPPING while the device holds a duty cycle
\* above 0.
C33_WitnessLeftOn ==
    \E o \in Outputs :
        /\ pwm[o].state = STATE_STOPPED /\ call.op = "u_tick" /\ call.on = o /\ call.ret = TRUE
        /\ pwm[o].last_value = 0 /\ pwm[o].target = 0 /\ hw[o].pwm > 0

(***************************************************************************)
(* Properties of PWMRequest (SpecRequests)                                 *)
(***************************************************************************)

\* The start values the requests carry.
StartValues(requests) ==
    { requests[i].start_value : i \in { j \in 1..Len(requests) : requests[j].start_value # None } }

\* The largest start value carried, None when none is.
LargestStart(requests) ==
    IF StartValues(requests) = {} THEN None
    ELSE CHOOSE v \in StartValues(requests) : \A w \in StartValues(requests) : w <= v

\* C40: get_max_start(requests) returns the largest start_value among the
\* requests that carry one, and None when no request carries one.
C40_LargestStartValue ==
    asked.op = "get_max_start" => asked.ret = LargestStart(asked.requests)

\* C40, what get_max_start keeps: None when no request carries a start
\* value, and otherwise the start value (None, if it has none) of the first
\* request with the largest target.
C40_StartOfLargestTarget ==
    asked.op = "get_max_start"
        => LET requests == asked.requests
               first == CHOOSE i \in 1..Len(requests) :
                           /\ \A j \in 1..Len(requests) :
                                 requests[j].target_value <= requests[i].target_value
                           /\ \A j \in 1..(i - 1) :
                                 requests[j].target_value < requests[i].target_value
           IN  asked.ret = IF StartValues(requests) = {} THEN None
                           ELSE requests[first].start_value

\* get_max_start was given a fan at rest that asks for a start at 80
\* towards 50 and a spinning fan that asks for 90, and returned None.
C40_WitnessNoStart ==
    /\ asked.op = "get_max_start" /\ asked.ret = None
    /\ asked.requests = <<PWMRequest(2, 50, 80), PWMRequest(1, 90, None)>>

\* get_max_start returned the largest start value, that of the request with
\* the largest target.
C40_WitnessLargest ==
    /\ asked.op = "get_max_start" /\ asked.ret = 80
    /\ asked.requests = <<PWMRequest(1, 50, 0), PWMRequest(2, 90, 80)>>

\* The name is empty or has a character outside allowed_chars.
Invalid(name) ==
    name = "" \/ \E i \in 1..Len(Chars(name)) : Chars(name)[i] \notin allowed_chars

\* The step is a call of set(section, key, value).
SetCalled == settings'.op = "set" /\ settings' # settings

\* C39: set() with a section name or a key name that is empty or has a
\* character outside allowed_chars raises ControlRuntimeError and leaves
\* the configuration as it was: no section is created, no key is added or
\* changed, also when the section is new and valid and the key is invalid.
C39_InvalidNameChangesNothing ==
    [][SetCalled /\ (Invalid(settings'.section) \/ Invalid(settings'.key))
          => /\ settings'.exc = "ControlRuntimeError"
             /\ settings'.sections = settings.sections]_vars

\* C39, what set() keeps: an invalid name of a section that is not there,
\* and an invalid name of a key that is not there, raise
\* ControlRuntimeError; the sections that were there are as they were; a
\* new section whose name is valid is there after the call, with the ten
\* defaults of create_section, though the key was refused.
C39_InvalidNameRaises ==
    [][SetCalled /\ (Invalid(settings'.section) \/ Invalid(settings'.key))
          => LET held == DOMAIN settings.sections
                 section == settings'.section
             IN  /\ settings'.exc = "ControlRuntimeError"
                 /\ \A s \in held : settings'.sections[s] = settings.sections[s]
                 /\ DOMAIN settings'.sections =
                       IF Invalid(section) THEN held ELSE held \cup {section}
                 /\ section \notin held /\ ~Invalid(section)
                       => settings'.sections[section] = SectionDefaults]_vars

\* set("fan3", "ke@y", ...) has raised and the section fan3, which was not
\* there, now is.
C39_WitnessSectionCreated ==
    /\ settings.op = "set" /\ settings.section = "fan3" /\ settings.key = "ke@y"
    /\ settings.exc = "ControlRuntimeError"
    /\ "fan3" \in DOMAIN settings.sections /\ settings.sections["fan3"] = SectionDefaults

\* set("secti@n", "key", ...) has raised and nothing was created.
C39_WitnessRefused ==
    /\ settings.op = "set" /\ settings.section = "secti@n" /\ settings.key = "key"
    /\ settings.exc = "ControlRuntimeError"
    /\ DOMAIN settings.sections = {SETTINGS}

(***************************************************************************)
(* Properties of the setup phase (Spec)                                    *)
(***************************************************************************)

\* What the fans of output o submit in a cycle, in the order of the fans.
CycleRequests(o) ==
    [i \in 1..Len(fans_of(o)) |->
        calculate(fans_of(o)[i], temp_value, fan_value[fans_of(o)[i]]).ret]

\* C38: setup() of an output leaves no request pending, whatever the fans'
\* setup() submitted and however it ends, and writes no duty cycle; a duty
\* cycle is written by plan_ahead(), u_tick() and shutdown() alone; and
\* each plan_ahead() finds the requests of its own cycle, one of each fan,
\* and nothing else.
C38_SetupRequestsDropped ==
    [][\A o \in Outputs :
          /\ pc.at = "setup_pwm" /\ outputs[pc.i] = o /\ pc' # pc /\ call'.op = "setup"
                => /\ pwm'[o].requests = <<>>
                   /\ hw'[o].pwm = hw[o].pwm
                   /\ \A i \in 1..Len(call'.io) : call'.io[i].path = "enable"
          /\ hw'[o].pwm # hw[o].pwm
                => call'.on = o /\ call'.op \in {"plan_ahead", "u_tick", "shutdown"}
          /\ pc.at = "plan" /\ outputs[pc.i] = o /\ pc' # pc /\ call'.op = "plan_ahead"
                => pwm[o].requests = CycleRequests(o)]_vars

\* C38 happens: setup() of output 2 has dropped the request fan 3 made in
\* the setup phase (a start at 50 towards 60), the device as it was.
C38_Witness ==
    /\ call.op = "setup" /\ call.on = 2 /\ call.exc = NoExc /\ pc.at = "loop"
    /\ cycle.requested = Fans /\ temp_value = 70000 /\ fan_value[3] = 0
    /\ pwm[2].requests = <<>> /\ hw[2].pwm \in InitialDuty

(***************************************************************************)
(* Properties of the running controller (SpecCycling)                      *)
(***************************************************************************)

\* At the cached temperature some fan of output o computes a target above
\* its pwm_stop.
AsksToRun(o) ==
    \E i \in 1..Len(fans_of(o)) :
        LET f == fans_of(o)[i]
        IN  temp_value # None /\ TargetAt(f, temp_value) > FanConfig(f).pwm_stop

\* A cycle's plan_ahead() of output o has just returned.
Planned(o) == call.op = "plan_ahead" /\ call.on = o /\ call.exc = NoExc

\* C34: an output that is STOPPED and of which, in every following cycle,
\* some fan computes a target above its pwm_stop, eventually leaves
\* STOPPED, whatever the tachometers read meanwhile.
C34_LeavesStopped ==
    \A o \in Outputs :
        []((pwm[o].state = STATE_STOPPED /\ []AsksToRun(o) /\ []<>Planned(o))
              => <>(pwm[o].state # STATE_STOPPED))

\* C35: once the interrupt handler's flag is set, control() eventually
\* leaves the cycle loop and runs the shutdown sequence (or has ended on an
\* exception), also when the cycle's deadline has passed before the
\* tick-wait loop is reached.
C35_InterruptStops ==
    [](handler.interrupted
          => <>(pc.at \in {"shutdown_fans", "shutdown_pwm", "done", "crashed"}))

\* C24 happens: the loop over PWMIterator(0, 7, 3) has ended, after a
\* shorter last step.
C24_Witness ==
    /\ iter.stopped
    /\ iter.self.start = 0 /\ iter.self.end = 7 /\ iter.self.step = 3
    /\ iter.values = <<0, 3, 6, 7>>

====
